---- MODULE Spec2Model ----
(***************************************************************************)
(* The eBay listing tracker of the bot (latest revision): the data source  *)
(* with its API -> scrape fallback, the interval policy, the stored        *)
(* document of tracked listings, the periodic update loop, the button      *)
(* handlers that change a listing's status, the /ebay-organize command and *)
(* the start of the process (ClientReady).                                 *)
(*                                                                         *)
(* Times are epoch milliseconds.  A JavaScript value that may be null is   *)
(* modelled as a sequence: <<>> is null, <<v>> is the value v.             *)
(***************************************************************************)
EXTENDS Integers, Sequences, FiniteSets, TLC

\* ------------------------------------------------------------------------
\* Bounds of the model
\* ------------------------------------------------------------------------
\* number of update-loop callbacks that may be in progress at the same time
MaxTicks == 1
\* index of the last sampled clock instant the clock may reach
MaxInstant == 3
\* number of data-source fetches (getEbayListing calls) in one behaviour
MaxFetches == 3
\* number of button presses (sold, shipped, close) in one behaviour
MaxPresses == 1
\* number of /ebay-organize commands in one behaviour
MaxOrganize == 1
\* number of ready events the gateway reports in one behaviour
MaxReady == 2
\* number of photo-ticket channels guild.channels.create makes in one behaviour
MaxTickets == 2
\* number of listing_modal handlers that may be in progress at the same time
MaxModals == 2
\* number of /ebay-organize runs over one channel, one after the other
MaxRuns == 2
\* number of fetchEbayListingViaAPI calls that may be in progress at the same
\* time
MaxCallers == 2
\* number of /ebay-setup and /ebay-clear commands in one behaviour
MaxSetups == 1

\* ------------------------------------------------------------------------
\* Time
\* ------------------------------------------------------------------------
MINUTE == 60 * 1000
HOUR == 60 * 60 * 1000
DAY == 24 * 60 * 60 * 1000

NULL == <<>>

\* the instant the process becomes ready
T0 == 1000

\* the instants at which the model samples the clock (Date.now())
Instants ==
  <<T0, T0 + 2 * MINUTE - 1, T0 + 2 * MINUTE, T0 + 5 * MINUTE - 1,
    T0 + 5 * MINUTE, T0 + 5 * MINUTE + 1, T0 + 30 * MINUTE>>

ClockValues == {Instants[i] : i \in 1..MaxInstant}

\* ------------------------------------------------------------------------
\* Interval policy
\* ------------------------------------------------------------------------
\* variants of the interval policy, for comparison with getUpdateIntervalMs:
\* one that keeps the 2-minute interval up to and including one hour left
getUpdateIntervalMs_closedHour(endTime, clock) ==
  IF endTime = NULL \/ endTime = <<0>> THEN <<30 * 60 * 1000>>
  ELSE LET timeLeft == endTime[1] - clock IN
       IF timeLeft <= 0 THEN NULL
       ELSE IF timeLeft <= 60 * 60 * 1000 THEN <<2 * 60 * 1000>>
       ELSE IF timeLeft < 8 * 60 * 60 * 1000 THEN <<5 * 60 * 1000>>
       ELSE IF timeLeft < 3 * 24 * 60 * 60 * 1000 THEN <<15 * 60 * 1000>>
       ELSE <<30 * 60 * 1000>>

\* and one that polls a passed deadline at the fastest interval instead of
\* reporting it
getUpdateIntervalMs_neverOver(endTime, clock) ==
  IF endTime = NULL \/ endTime = <<0>> THEN <<30 * 60 * 1000>>
  ELSE LET timeLeft == endTime[1] - clock IN
       IF timeLeft < 60 * 60 * 1000 THEN <<2 * 60 * 1000>>
       ELSE IF timeLeft < 8 * 60 * 60 * 1000 THEN <<5 * 60 * 1000>>
       ELSE IF timeLeft < 3 * 24 * 60 * 60 * 1000 THEN <<15 * 60 * 1000>>
       ELSE <<30 * 60 * 1000>>

\* getUpdateIntervalMs(endTime), with clock the value of Date.now() inside it
getUpdateIntervalMs(endTime, clock) ==
  IF endTime = NULL \/ endTime = <<0>> THEN <<30 * 60 * 1000>>
  ELSE LET timeLeft == endTime[1] - clock IN
       IF timeLeft <= 0 THEN NULL
       ELSE IF timeLeft < 60 * 60 * 1000 THEN <<2 * 60 * 1000>>
       ELSE IF timeLeft < 8 * 60 * 60 * 1000 THEN <<5 * 60 * 1000>>
       ELSE IF timeLeft < 3 * 24 * 60 * 60 * 1000 THEN <<15 * 60 * 1000>>
       ELSE <<30 * 60 * 1000>>

\* ------------------------------------------------------------------------
\* Users, URLs, channels
\* ------------------------------------------------------------------------
\* u1 tracks listings, u2 is another member, mod holds the staff role
Users == {"u1", "u2", "mod"}
Sellers == {"u1"}

\* memberIsStaff(interaction): the staff role or the ManageChannels permission
memberIsStaff(user) == user = "mod"

\* what a user may type into the ebay_url field of the modal
RawUrls ==
  {"https://www.ebay.com/itm/1234?hash=abc", "https://ebay.us/m/xyz",
   "https://example.com/itm/1"}

\* ebayPattern of the ebay_modal handler
MatchesEbayPattern(raw) ==
  raw \in {"https://www.ebay.com/itm/1234?hash=abc", "https://ebay.us/m/xyz"}

\* origin + pathname: the tracking parameters are dropped
NormalizeUrl(raw) ==
  IF raw = "https://www.ebay.com/itm/1234?hash=abc"
  THEN "https://www.ebay.com/itm/1234"
  ELSE raw

\* url.match(/\/itm\/(?:.*\/)?(\d+)/) of fetchEbayListingViaAPI
HasItemId(url) == url = "https://www.ebay.com/itm/1234"

\* channel ids in the order Discord hands them out (snowflakes grow with time),
\* which is also the key order of the stored ebayListings object
ChannelSeq == <<"c1", "c2">>
Channels == {ChannelSeq[i] : i \in 1..Len(ChannelSeq)}

\* ------------------------------------------------------------------------
\* Listing data source
\* ------------------------------------------------------------------------
Soon == T0 + 30 * MINUTE
Past == T0 - 1

\* what the listing page / the Browse API may hold when it is asked
Item(rev, price, bids, endTime, ended, kind) ==
  [rev |-> rev, price |-> price, bids |-> bids, endTime |-> endTime,
   ended |-> ended, kind |-> kind]

Items ==
  { Item(1, "$10", 2, <<Soon>>, FALSE, "auction"),
    Item(2, "$12", 2, <<Soon>>, TRUE, "auction"),
    Item(1, "$10", 3, <<Soon>>, FALSE, "auction"),
    Item(1, "$10", 2, <<Past>>, FALSE, "auction"),
    Item(1, "$10", 0, NULL, FALSE, "buy_it_now") }

NoItem == Item(0, "", 0, NULL, FALSE, "")

RevTitle(rev) == IF rev = 1 THEN "Old camera" ELSE "Old camera (relisted)"
RevImage(rev) == IF rev = 1 THEN <<"https://i.ebayimg.com/1.jpg">> ELSE NULL
RevText(rev) == IF rev = 1 THEN "works" ELSE "works, with box"

\* the snapshot fetchEbayListingViaAPI builds from the API's item, at time clock
fetchEbayListingViaAPI(item, clock) ==
  [title |-> RevTitle(item.rev),
   currentPrice |-> item.price,
   bidCount |-> item.bids,
   endTime |-> item.endTime,
   imageUrl |-> RevImage(item.rev),
   description |-> RevText(item.rev),
   views |-> item.rev * 10,
   watchers |-> item.rev,
   status |-> IF item.endTime # NULL /\ item.endTime[1] < clock
              THEN "ended" ELSE "active",
   source |-> "api",
   listingType |-> item.kind,
   buyItNowPrice |-> NULL]

\* the snapshot scrapeEbayListing builds from the page
scrapeEbayListing(item) ==
  [title |-> RevTitle(item.rev),
   currentPrice |-> item.price,
   bidCount |-> item.bids,
   endTime |-> item.endTime,
   imageUrl |-> RevImage(item.rev),
   description |-> RevText(item.rev),
   views |-> item.rev * 10,
   watchers |-> item.rev,
   status |-> IF item.ended THEN "ended" ELSE "active",
   source |-> "scrape",
   listingType |-> item.kind,
   buyItNowPrice |-> NULL]

\* what one strategy does when it is called: it throws, or it returns item
\* (Idle stands for a strategy whose outcome is never looked at)
Idle == [ok |-> FALSE, why |-> "", item |-> NoItem]
Threw(why) == [ok |-> FALSE, why |-> why, item |-> NoItem]
Returned(item) == [ok |-> TRUE, why |-> "", item |-> item]
Outcome(o) == IF o.ok THEN "ok" ELSE o.why

\* what the API strategy would do for url: without an item id in the url it
\* throws before any request; else the token request or the item request may
\* fail, or the item comes back
ApiOutcomes(url, viaApi) ==
  IF ~viaApi THEN {Idle}
  ELSE IF ~HasItemId(url) THEN {Threw("Could not extract item ID from URL")}
  ELSE {Threw("eBay OAuth failed"), Threw("eBay API error")}
         \cup {Returned(i) : i \in Items}

\* what the scrape strategy would do
ScrapeOutcomes(api) ==
  IF api.ok THEN {Idle}
  ELSE {Threw("Failed to fetch eBay listing")} \cup {Returned(i) : i \in Items}

\* a data source without the fallback, for comparison: with the API enabled
\* its failure is the call's failure
getEbayListing_noFallback(viaApi, api, scrape, clock) ==
  IF viaApi
  THEN IF api.ok
       THEN [ok |-> TRUE, data |-> <<fetchEbayListingViaAPI(api.item, clock)>>,
             error |-> "", apiCalls |-> 1, scrapeCalls |-> 0]
       ELSE [ok |-> FALSE, data |-> NULL, error |-> api.why,
             apiCalls |-> 1, scrapeCalls |-> 0]
  ELSE IF scrape.ok
  THEN [ok |-> TRUE, data |-> <<scrapeEbayListing(scrape.item)>>,
        error |-> "", apiCalls |-> 0, scrapeCalls |-> 1]
  ELSE [ok |-> FALSE, data |-> NULL, error |-> scrape.why,
        apiCalls |-> 0, scrapeCalls |-> 1]

\* a data source that reports the first failure instead of the last, for
\* comparison
getEbayListing_firstCause(viaApi, api, scrape, clock) ==
  IF viaApi /\ api.ok
  THEN [ok |-> TRUE, data |-> <<fetchEbayListingViaAPI(api.item, clock)>>,
        error |-> "", apiCalls |-> 1, scrapeCalls |-> 0]
  ELSE IF scrape.ok
  THEN [ok |-> TRUE, data |-> <<scrapeEbayListing(scrape.item)>>,
        error |-> "", apiCalls |-> IF viaApi THEN 1 ELSE 0, scrapeCalls |-> 1]
  ELSE [ok |-> FALSE, data |-> NULL,
        error |-> IF viaApi THEN api.why ELSE scrape.why,
        apiCalls |-> IF viaApi THEN 1 ELSE 0, scrapeCalls |-> 1]

\* getEbayListing(url), entered with isEbayApiEnabled() = viaApi, where api
\* and scrape are what the two strategies do when called and clock is the
\* time the API answer is parsed
getEbayListing(viaApi, api, scrape, clock) ==
  IF viaApi /\ api.ok
  THEN [ok |-> TRUE, data |-> <<fetchEbayListingViaAPI(api.item, clock)>>,
        error |-> "", apiCalls |-> 1, scrapeCalls |-> 0]
  ELSE IF scrape.ok
  THEN [ok |-> TRUE, data |-> <<scrapeEbayListing(scrape.item)>>,
        error |-> "", apiCalls |-> IF viaApi THEN 1 ELSE 0, scrapeCalls |-> 1]
  ELSE [ok |-> FALSE, data |-> NULL, error |-> scrape.why,
        apiCalls |-> IF viaApi THEN 1 ELSE 0, scrapeCalls |-> 1]

\* ------------------------------------------------------------------------
\* Embed buttons
\* ------------------------------------------------------------------------
\* the custom ids of the buttons buildEbayListingButtons puts on the embed
buildEbayListingButtons(listing) ==
  {"ebay_refresh"}
    \cup (IF listing.status = "active"
          THEN (IF listing.listingType = "buy_it_now" THEN {"ebay_sold"} ELSE {})
                 \cup {"ebay_close"}
          ELSE IF listing.status = "ended" \/ listing.status = "sold"
          THEN {"ebay_shipped"}
          ELSE {})

\* ------------------------------------------------------------------------
\* State
\* ------------------------------------------------------------------------
VARIABLES
  now,        \* Date.now()
  dataFile,   \* the stored document: ebayListings (channel id -> record),
              \* ebayCredentials (null or the app id), and whether the file
              \* is missing (absent or unparsable)
  ticks,      \* the update-loop callbacks: slot -> where the callback stands
  discord,    \* the tracking channels: channel id -> the buttons on its embed
  ev,         \* what the last step did (calls made, messages posted)
  nFetch,     \* getEbayListing calls so far
  nPress,     \* status buttons pressed so far
  finalUpdated, \* the channels whose listing had a completed fetch after the
                \* loop found its deadline passed (history)
  hist,       \* per channel, how often the loop moved its record to ended and
              \* posted 'Auction Ended'; the channels whose latest fetch by
              \* the loop failed, and those for which a fetch of the loop
              \* succeeded after a failed one; the price and bid count the
              \* data source returned last, and the ones the last 'Bid
              \* Update' since that price and bid count came up announced
              \* (history)
  organize,   \* the /ebay-organize command: whether one is running, and the
              \* document its handler loaded
  proc,       \* the process: whether the ClientReady listener is still
              \* registered, whether ready was handled, the interval timers
              \* started, and whether ebayIntakeChannelId is configured
  adding,     \* the ebay_modal handler: whether one is waiting for the data
              \* source, with the document its handler loaded, the url and
              \* the member
  photo,      \* the photo tickets: the stored panelMessageId and listings
              \* (channel id -> ticket), the listing_modal handlers in
              \* progress, the ensurePanelMessage call, the ticket channels
              \* created in the guild, and what the last handler did
  organized,  \* a tracking channel as /ebay-organize sees it: the stored
              \* status and listingType, the channel's name (UTF-16 code
              \* units) and category, and the results of the runs so far
  auth        \* the access token: ebayAccessToken (null or the token, with
              \* the credentials it was issued for), ebayTokenExpiry, the
              \* fetchEbayListingViaAPI calls waiting for a token, the
              \* ebay_setup_modal or /ebay-clear handler in progress, and
              \* the token the last step used for an API call

vars ==
  <<now, dataFile, ticks, discord, ev, nFetch, nPress, finalUpdated, hist,
    organize, proc, adding, photo, organized, auth>>

Slots == 1..MaxTicks

EmptyListings == [c \in {} |-> NULL]

\* the keys of listings in Object.entries order
Keys(listings) == SelectSeq(ChannelSeq, LAMBDA c : c \in DOMAIN listings)

\* listings with the entry of channel c set to rec
Put(listings, c, rec) ==
  [k \in DOMAIN listings \cup {c} |-> IF k = c THEN rec ELSE listings[k]]

\* listings without the entry of channel c
Drop(listings, c) == [k \in DOMAIN listings \ {c} |-> listings[k]]

\* isEbayApiEnabled(): credentials in the stored document (config.json holds none)
isEbayApiEnabled == dataFile.ebayCredentials # NULL

\* the document loadDb returns when the data file is absent or does not
\* parse: it has no ebayListings key (missing), no credentials, no listing
DefaultDb ==
  [ebayListings |-> EmptyListings, ebayCredentials |-> NULL, missing |-> TRUE]

\* variant: loadDb without its try block throws on such a file
loadDb_unguarded == [threw |-> dataFile.missing, db |-> dataFile]

\* loadDb(): the parsed file, or the default document from its catch block
\* (the variable dataFile holds what a load returns)
loadDb == [threw |-> FALSE,
           db |-> IF dataFile.missing THEN DefaultDb ELSE dataFile]

\* a callback that is not running; failed and merged are the channels whose
\* fetch failed / was merged in the slot's latest callback (history)
IdleTick ==
  [pc |-> "idle", db |-> EmptyListings, tnow |-> 0, cur |-> "",
   viaApi |-> FALSE, old |-> NULL, newData |-> NULL,
   failed |-> {}, merged |-> {}]

\* what a step did, when it did nothing: op is the handler, chan its channel,
\* issued the channel getEbayListing was called for; for a settled
\* getEbayListing, api and scrape are what the strategies did ("" for one
\* whose outcome was never looked at, "ok", or the error), result how the call
\* ended, with its strategy calls, the snapshot and its source; saved / edited
\* / renamed / sent are the store and gateway effects
NoEvent ==
  [op |-> "", chan |-> "", issued |-> "", api |-> "", scrape |-> "",
   result |-> "", error |-> "", apiCalls |-> 0, scrapeCalls |-> 0,
   source |-> "", reply |-> "",
   data |-> NULL,
   saved |-> FALSE, edited |-> FALSE, renamed |-> FALSE, sent |-> <<>>,
   denied |-> FALSE, user |-> ""]

\* an InteractionCreate handler whose loadDb threw: nothing catches it
Uncaught(op) ==
  /\ ev' = [NoEvent EXCEPT !.op = op, !.result = "uncaught"]
  /\ UNCHANGED <<now, dataFile, ticks, discord, nFetch, nPress, finalUpdated,
                 hist, organize, proc, adding, photo, organized, auth>>

\* the data file is deleted, or its content is replaced by something that
\* does not parse
FileLost ==
  /\ ~dataFile.missing
  /\ dataFile' = DefaultDb
  /\ ev' = [NoEvent EXCEPT !.op = "file_lost"]
  /\ UNCHANGED <<now, ticks, discord, nFetch, nPress, finalUpdated, hist,
                 organize, proc, adding, photo, organized, auth>>

\* nothing has happened yet
NoHistory ==
  [ended |-> [c \in Channels |-> 0], posts |-> [c \in Channels |-> 0],
   failed |-> {}, recovered |-> {},
   seen |-> [c \in Channels |-> NULL], told |-> [c \in Channels |-> NULL]]

\* no ebay_modal handler is waiting
NoAdding == [pc |-> "idle", db |-> NULL, url |-> "", user |-> ""]

\* the ids guild.channels.create gives to the ticket channels, in order; Lobby
\* is a channel that is no ticket
TicketIds == 1..MaxTickets
Lobby == 0
ModalSlots == 1..MaxModals

\* attachments of a message: the url (its text before and after the last
\* dot) and the content type Discord reports, if any
ScanJpeg ==
  [url |-> [name |-> "scan", ext |-> ""],
   contentType |-> <<[type |-> "image", subtype |-> "jpeg"]>>]
BoxPng == [url |-> [name |-> "box", ext |-> "PNG"], contentType |-> NULL]
NotesTxt ==
  [url |-> [name |-> "notes", ext |-> "txt"],
   contentType |-> <<[type |-> "text", subtype |-> "plain"]>>]

\* message.attachments.values() of the messages that arrive
MessageShapes ==
  {<<>>, <<ScanJpeg>>, <<NotesTxt>>, <<BoxPng, ScanJpeg>>, <<NotesTxt, BoxPng>>}

\* the i flag of the extension test
LowerCase(ext) == IF ext = "PNG" THEN "png" ELSE ext

\* isImageAttachment(att): contentType starts with "image/", or the url ends
\* in .png, .jpg, .jpeg, .webp or .gif (any case)
isImageAttachment(att) ==
  \/ att.contentType # NULL /\ att.contentType[1].type = "image"
  \/ LowerCase(att.url.ext) \in {"png", "jpg", "jpeg", "webp", "gif"}

\* the elements of a sequence
Range(seq) == {seq[i] : i \in 1..Len(seq)}

\* newImages: the urls of the image attachments, in the message's order
newImages(atts) ==
  LET imgs == SelectSeq(atts, isImageAttachment)
  IN [i \in 1..Len(imgs) |-> imgs[i].url]

\* existing = new Set(ticket.images); existing.add(url) for each new url;
\* Array.from(existing): insertion order, each url once
RECURSIVE AddImages(_, _)
AddImages(images, urls) ==
  IF urls = <<>> THEN images
  ELSE AddImages(IF Head(urls) \in Range(images) THEN images
                 ELSE Append(images, Head(urls)),
                 Tail(urls))

\* the document loadDb returns while the data file does not exist
EmptyDb == [panelMessageId |-> NULL, listings |-> EmptyListings]

NoCreating == [pc |-> "idle", db |-> NULL, user |-> ""]
NoPhotoEvent ==
  [op |-> "", chan |-> Lobby, user |-> "", bot |-> FALSE, atts |-> <<>>,
   saved |-> FALSE]

\* the photo tickets of a fresh installation before the gateway reports ready
NoPhoto ==
  [db |-> EmptyDb,
   creating |-> [i \in ModalSlots |-> NoCreating],
   panel |-> [pc |-> "boot", db |-> NULL],
   created |-> EmptyListings,
   last |-> NoPhotoEvent]

\* no token is cached, nothing is waiting for one
Callers == 1..MaxCallers
NoCaller == [pc |-> "idle", creds |-> NULL]
NoAdmin == [pc |-> "idle", db |-> NULL, appId |-> ""]
NoApiCall == [op |-> "", token |-> NULL]
NoAuth ==
  [ebayAccessToken |-> NULL, ebayTokenExpiry |-> 0,
   callers |-> [i \in Callers |-> NoCaller],
   admin |-> NoAdmin, commands |-> 0, last |-> NoApiCall]

\* no channel is being organized
NoOrganized == [listing |-> NULL, channel |-> NULL, results |-> <<>>]

\* no /ebay-organize command is running; runs counts the commands given
NoOrganize == [pc |-> "idle", db |-> NULL, runs |-> 0]

\* the process before the gateway reports ready: client.once has registered
\* the ClientReady listener, no timer exists; events counts the ready events
\* of the gateway, pending the ClientReady handlers that are awaiting
Booting(intake) ==
  [listening |-> TRUE, ready |-> FALSE, events |-> 0, pending |-> 0,
   timers |-> 0, intake |-> intake]

\* the process after the ClientReady handler ran with ebayIntakeChannelId
\* configured and the panel in place: startEbayUpdateLoop has been called
Running ==
  [listening |-> FALSE, ready |-> TRUE, events |-> 1, pending |-> 0,
   timers |-> 1, intake |-> TRUE]

\* a listener registered with client.on stays registered, for comparison
ListenerAfterReady_on == TRUE

\* client.once: the listener is removed when it is called
ListenerAfterReady == FALSE

\* the gateway reports ready: the listener, if still registered, is called
\* and its handler starts awaiting (registerSlashCommands, ensurePanelMessage
\* and ensureEbayPanelMessage, none of which lets an error out of the handler)
ClientReady ==
  /\ proc.events < MaxReady
  /\ proc' = IF proc.listening
             THEN [proc EXCEPT !.events = @ + 1, !.ready = TRUE,
                               !.listening = ListenerAfterReady,
                               !.pending = @ + 1]
             ELSE [proc EXCEPT !.events = @ + 1, !.ready = TRUE]
  /\ ev' = [NoEvent EXCEPT !.op = "client_ready"]
  /\ UNCHANGED <<now, dataFile, ticks, discord, nFetch, nPress, finalUpdated,
                 hist, organize, adding, photo, organized, auth>>

\* the awaits of a ClientReady handler are through: ensureEbayPanelMessage
\* returned at once without ebayIntakeChannelId, else it found or posted the
\* panel (panelOk) or threw; startEbayUpdateLoop is called when it did not
\* throw and ebayIntakeChannelId is set
ClientReadyDone ==
  /\ proc.pending > 0
  /\ \E panelOk \in BOOLEAN :
       /\ ~proc.intake => panelOk
       /\ proc' = [proc EXCEPT
                     !.pending = @ - 1,
                     !.timers = IF panelOk /\ proc.intake THEN @ + 1 ELSE @]
       /\ ev' = [NoEvent EXCEPT !.op = "client_ready_done",
                                !.result = IF panelOk THEN "ok" ELSE "failed"]
  /\ UNCHANGED <<now, dataFile, ticks, discord, nFetch, nPress, finalUpdated,
                 hist, organize, adding, photo, organized, auth>>

\* a fresh installation after ClientReady: ensureEbayPanelMessage has stored
\* an empty ebayListings and the update loop is about to be started
InitEmpty ==
  /\ now = T0
  /\ dataFile = [ebayListings |-> EmptyListings, ebayCredentials |-> NULL, missing |-> FALSE]
  /\ ticks = [s \in Slots |-> IdleTick]
  /\ discord = EmptyListings
  /\ ev = NoEvent
  /\ nFetch = 0
  /\ nPress = 0
  /\ finalUpdated = {}
  /\ hist = NoHistory
  /\ organize = NoOrganize
  /\ proc = Running
  /\ adding = NoAdding
  /\ photo = NoPhoto
  /\ organized = NoOrganized
  /\ auth = NoAuth

\* time passes
Advance ==
  /\ \E t \in ClockValues : t > now /\ now' = t
  /\ ev' = NoEvent
  /\ UNCHANGED <<dataFile, ticks, discord, nFetch, nPress, finalUpdated, hist, organize, proc, adding, photo, organized, auth>>

\* ------------------------------------------------------------------------
\* Add a listing (ebay_modal)
\* ------------------------------------------------------------------------
\* the record the ebay_modal handler stores for a new tracking channel
NewListing(url, user, listing, clock) ==
  [url |-> url,
   ownerId |-> user,
   title |-> listing.title,
   currentPrice |-> listing.currentPrice,
   bidCount |-> listing.bidCount,
   endTime |-> listing.endTime,
   imageUrl |-> listing.imageUrl,
   description |-> listing.description,
   views |-> listing.views,
   watchers |-> listing.watchers,
   status |-> listing.status,
   source |-> listing.source,
   listingType |-> listing.listingType,
   buyItNowPrice |-> listing.buyItNowPrice,
   lastChecked |-> clock,
   createdAt |-> clock]

\* the id of the channel guild.channels.create makes next
NextChannel == ChannelSeq[Cardinality(DOMAIN discord) + 1]

\* the ebay_modal handler up to its getEbayListing call: the InteractionCreate
\* handler has loaded the document, user submits the modal with the text raw,
\* a text that is no eBay url is answered at once, else the url is normalised
\* and the data source is called
EbayModalSubmit ==
  IF loadDb.threw THEN Uncaught("ebay_modal") ELSE
  \E user \in Sellers, raw \in RawUrls :
    /\ adding.pc = "idle"
    /\ IF ~MatchesEbayPattern(raw)
       THEN /\ ev' = [NoEvent EXCEPT !.op = "ebay_modal", !.denied = TRUE]
            /\ UNCHANGED <<nFetch, adding>>
       ELSE /\ nFetch < MaxFetches
            /\ Cardinality(DOMAIN discord) < Len(ChannelSeq)
            /\ nFetch' = nFetch + 1
            /\ adding' = [pc |-> "fetch", db |-> <<loadDb.db>>,
                          url |-> NormalizeUrl(raw), user |-> user]
            /\ ev' = [NoEvent EXCEPT !.op = "ebay_modal_submit"]
    /\ UNCHANGED <<now, dataFile, ticks, discord, nPress, finalUpdated, hist,
                   organize, proc, photo, organized, auth>>

\* the rest of the ebay_modal handler, once its getEbayListing call settles:
\* created says whether the channel could be made, posted whether the embed
\* was sent; the document saved is the one the handler loaded before the call,
\* with the new record put in
EbayModalDone ==
  /\ adding.pc = "fetch"
  /\ \E api \in ApiOutcomes(adding.url, isEbayApiEnabled) :
     \E scrape \in ScrapeOutcomes(api) :
     \E created \in BOOLEAN, posted \in BOOLEAN :
       LET r == getEbayListing(isEbayApiEnabled, api, scrape, now)
           c == NextChannel
           rec == NewListing(adding.url, adding.user, r.data[1], now)
           e == [NoEvent EXCEPT !.op = "ebay_modal",
                                !.api = Outcome(api),
                                !.scrape = Outcome(scrape),
                                !.apiCalls = r.apiCalls,
                                !.scrapeCalls = r.scrapeCalls,
                                !.error = r.error,
                                !.data = r.data]
       IN
       IF r.ok /\ created
       THEN /\ dataFile' =
                 [adding.db[1] EXCEPT !.ebayListings = Put(@, c, rec),
                                      !.missing = FALSE]
            /\ discord' =
                 Put(discord, c,
                     [buttons |-> IF posted
                                  THEN buildEbayListingButtons(rec)
                                  ELSE {}])
            /\ ev' = [e EXCEPT !.chan = c, !.result = "ok",
                               !.source = r.data[1].source,
                               !.saved = TRUE, !.edited = posted]
       ELSE /\ (r.ok => ~posted)
            /\ (~r.ok => ~created /\ ~posted)
            /\ ev' = [e EXCEPT !.result = IF r.ok THEN "ok" ELSE "failed"]
            /\ UNCHANGED <<dataFile, discord>>
  /\ adding' = NoAdding
  /\ UNCHANGED <<now, ticks, nFetch, nPress, finalUpdated, hist, organize, proc, photo, organized, auth>>

\* ------------------------------------------------------------------------
\* The update loop
\* ------------------------------------------------------------------------
\* the skip list of the earlier revision, for comparison
SkippedStatuses_firstRevision == {"closed", "ended"}

\* the statuses the loop skips
SkippedStatuses == {"closed", "ended", "sold", "shipped"}

\* a due test that waits one millisecond longer, for comparison
\* variant: every record that is not skipped for its status is fetched
IsDue_always(tnow, listing, interval) == TRUE

IsDue_strict(tnow, listing, interval) == tnow - listing.lastChecked > interval

\* timeSinceLastCheck >= interval, with now the time the callback started
IsDue(tnow, listing, interval) == tnow - listing.lastChecked >= interval

RECURSIVE Scan(_, _, _)
\* the for loop of the callback from the first entry of db on, up to its next
\* await: db are the entries not yet passed, tnow is the callback's now and
\* clock the present time.  fetch says whether updateEbayListing was called,
\* for channel cur, with db holding the listing object handed to it.
Scan(db, tnow, clock) ==
  IF DOMAIN db = {}
  THEN [fetch |-> FALSE, db |-> db, cur |-> ""]
  ELSE LET c == Keys(db)[1]
           listing == db[c]
           interval == getUpdateIntervalMs(listing.endTime, clock)
       IN
       IF listing.status \in SkippedStatuses
       THEN Scan(Drop(db, c), tnow, clock)
       ELSE IF interval = NULL
       THEN [fetch |-> TRUE, db |-> [db EXCEPT ![c].status = "ended"],
             cur |-> c]
       ELSE IF IsDue(tnow, listing, interval[1])
       THEN [fetch |-> TRUE, db |-> db, cur |-> c]
       ELSE Scan(Drop(db, c), tnow, clock)

\* variant: the loop does not wait for updateEbayListing, the calls for all
\* the entries from cur on go out at once
Issued_unawaited(r) == IF r.fetch THEN Cardinality(DOMAIN r.db) ELSE 0

\* the getEbayListing calls that go out when the for loop has run up to its
\* next await: the one of the updateEbayListing call it awaits, or none
Issued(r) == IF r.fetch THEN 1 ELSE 0

\* a callback after Scan returned r, with the history of its fetches so far
AfterScan(r, tnow, failed, merged) ==
  IF r.fetch
  THEN [pc |-> "fetch", db |-> r.db, tnow |-> tnow, cur |-> r.cur,
        viaApi |-> isEbayApiEnabled, old |-> NULL, newData |-> NULL,
        failed |-> failed, merged |-> merged]
  ELSE [IdleTick EXCEPT !.failed = failed, !.merged = merged]

\* a merge that leaves lastChecked alone, for comparison
MergeSnapshot_keepChecked(listing, newData, clock) ==
  [listing EXCEPT
     !.title = newData.title,
     !.currentPrice = newData.currentPrice,
     !.bidCount = newData.bidCount,
     !.endTime = newData.endTime,
     !.imageUrl = newData.imageUrl,
     !.description = newData.description,
     !.views = newData.views,
     !.watchers = newData.watchers,
     !.status = newData.status,
     !.source = newData.source]

\* a merge that builds the record anew from the snapshot, as the ebay_modal
\* handler does for a new listing, for comparison
MergeSnapshot_asNew(listing, newData, clock) ==
  [listing EXCEPT
     !.title = newData.title,
     !.currentPrice = newData.currentPrice,
     !.bidCount = newData.bidCount,
     !.endTime = newData.endTime,
     !.imageUrl = newData.imageUrl,
     !.description = newData.description,
     !.views = newData.views,
     !.watchers = newData.watchers,
     !.status = newData.status,
     !.source = newData.source,
     !.lastChecked = clock,
     !.createdAt = clock]

\* the lines of updateEbayListing that copy the snapshot into the listing
MergeSnapshot(listing, newData, clock) ==
  [listing EXCEPT
     !.title = newData.title,
     !.currentPrice = newData.currentPrice,
     !.bidCount = newData.bidCount,
     !.endTime = newData.endTime,
     !.imageUrl = newData.imageUrl,
     !.description = newData.description,
     !.views = newData.views,
     !.watchers = newData.watchers,
     !.status = newData.status,
     !.source = newData.source,
     !.lastChecked = clock]

\* priceChanged || bidCountChanged || justEnded of updateEbayListing
priceChanged(old, newData) == old.currentPrice # newData.currentPrice
bidCountChanged(old, newData) == old.bidCount # newData.bidCount
justEnded(old, newData) == old.status = "active" /\ newData.status = "ended"
WorthNotifying(old, newData) ==
  priceChanged(old, newData) \/ bidCountChanged(old, newData)
    \/ justEnded(old, newData)

\* variant: the callback saves the document it loaded when it started
StoreAfterFetch_whole(fresh, own, c, merged) == Put(own, c, merged)

\* the stored listings after the save of updateEbayListing: const db =
\* loadDb(); db.ebayListings[channelId] = listing; saveDb(db). fresh are the
\* listings of the document loaded at that moment, own those of the document
\* the callback loaded when it started
StoreAfterFetch(fresh, own, c, merged) == Put(fresh, c, merged)

\* a catch block that notes the attempt in lastChecked, for comparison
StoreAfterFailure_stamped(listings, c, listing, clock) ==
  Put(listings, c, [listing EXCEPT !.lastChecked = clock])

\* the stored listings after the catch block of updateEbayListing, entered
\* when getEbayListing threw for the listing of channel c: nothing is saved
StoreAfterFailure(listings, c, listing, clock) == listings

\* the save of updateEbayListing moves the stored record of c to ended
MovesToEnded(c, merged) ==
  /\ merged.status = "ended"
  /\ c \in DOMAIN dataFile.ebayListings =>
       dataFile.ebayListings[c].status # "ended"

\* the history once getEbayListing has returned data for channel c: the
\* price and bid count are noted, and when they differ from the ones noted
\* before (for a first fetch, from the stored ones) no 'Bid Update' has
\* announced them yet
Observed(h, c, data) ==
  LET v == <<data.currentPrice, data.bidCount>>
      prev == IF h.seen[c] # NULL THEN h.seen[c]
              ELSE IF c \in DOMAIN dataFile.ebayListings
              THEN <<dataFile.ebayListings[c].currentPrice,
                     dataFile.ebayListings[c].bidCount>>
              ELSE v
  IN [h EXCEPT !.seen[c] = v, !.told[c] = IF prev = v THEN @ ELSE NULL]

\* a timer of setInterval fires: a callback starts in the lowest free slot,
\* whether or not earlier callbacks have returned; a callback still running
\* was started at least one period of 60 seconds before
TickStart ==
  \E s \in DOMAIN ticks :
    /\ proc.timers > 0
    /\ ticks[s].pc = "idle"
    /\ \A q \in DOMAIN ticks : q < s => ticks[q].pc # "idle"
    /\ \A q \in DOMAIN ticks :
         ticks[q].pc # "idle" => now - ticks[q].tnow >= 60 * 1000
    /\ LET r == IF loadDb.threw \/ loadDb.db.missing
                THEN [fetch |-> FALSE, db |-> EmptyListings, cur |-> ""]
                ELSE Scan(loadDb.db.ebayListings, now, now)
       IN
       /\ r.fetch => nFetch < MaxFetches
       /\ nFetch' = nFetch + Issued(r)
       /\ ticks' = [ticks EXCEPT ![s] = AfterScan(r, now, {}, {})]
       /\ ev' = [NoEvent EXCEPT !.op = "tick", !.issued = r.cur,
                                !.result = IF loadDb.threw THEN "caught"
                                                           ELSE ""]
    /\ UNCHANGED <<now, dataFile, discord, nPress, finalUpdated, hist, organize, proc, adding, photo, organized, auth>>

\* loadDb, the assignment and saveDb of updateEbayListing, reached only after
\* a fetch that returned: on the default document the assignment to
\* db.ebayListings[channelId] throws; else writeFileSync returns or throws
\* (the file cannot be opened for writing)
SaveOutcomes(fetched) ==
  IF ~fetched THEN {TRUE}
  ELSE IF loadDb.threw \/ loadDb.db.missing THEN {FALSE}
  ELSE BOOLEAN

\* variant: nothing catches inside the callback, the error ends the pass
ResumeAfterError_passEnds(next) == [next EXCEPT !.fetch = FALSE, !.cur = ""]

\* the catch of updateEbayListing returns false to the loop, whose for
\* statement goes on with the following entry
ResumeAfterError(next) == next

\* the getEbayListing call of updateEbayListing settles
TickFetchDone ==
  \E s \in DOMAIN ticks :
    /\ ticks[s].pc = "fetch"
    /\ LET t == ticks[s]
           c == t.cur
           listing == t.db[c]
       IN
       \E api \in ApiOutcomes(listing.url, t.viaApi) :
       \E scrape \in ScrapeOutcomes(api) :
         LET r == getEbayListing(t.viaApi, api, scrape, now)
             e == [NoEvent EXCEPT !.op = "tick_fetch", !.chan = c,
                                  !.api = Outcome(api),
                                  !.scrape = Outcome(scrape),
                                  !.apiCalls = r.apiCalls,
                                  !.scrapeCalls = r.scrapeCalls,
                                  !.error = r.error,
                                  !.data = r.data]
             next == ResumeAfterError(Scan(Drop(t.db, c), t.tnow, now))
             rest == Scan(Drop(t.db, c), t.tnow, now)
         IN
         \E saved \in SaveOutcomes(r.ok) :
         IF ~r.ok \/ ~saved
         THEN /\ next.fetch => nFetch < MaxFetches
              /\ nFetch' = nFetch + Issued(next)
              /\ ticks' = [ticks EXCEPT ![s] =
                             AfterScan(next, t.tnow, t.failed \cup {c}, t.merged)]
              /\ ev' = [e EXCEPT !.result = IF r.ok THEN "save failed"
                                                    ELSE "failed",
                                 !.source = IF r.ok THEN r.data[1].source
                                                    ELSE "",
                                 !.issued = next.cur]
              /\ dataFile' = [dataFile EXCEPT !.ebayListings =
                                StoreAfterFailure(@, c, listing, now)]
              /\ hist' = [(IF r.ok THEN Observed(hist, c, r.data[1]) ELSE hist)
                            EXCEPT !.failed = @ \cup {c}]
              /\ UNCHANGED <<now, discord, nPress, finalUpdated, organize, proc, adding, photo, organized, auth>>
         ELSE LET newData == r.data[1]
                  merged == MergeSnapshot(listing, newData, now)
              IN
              /\ dataFile' = [dataFile EXCEPT !.ebayListings =
                                StoreAfterFetch(@, t.db, c, merged)]
              /\ finalUpdated' = IF listing.status = "ended"
                                 THEN finalUpdated \cup {c} ELSE finalUpdated
              /\ IF WorthNotifying(listing, newData)
                 THEN /\ ticks' = [ticks EXCEPT ![s] =
                                     [t EXCEPT !.pc = "gateway",
                                               !.db = Put(t.db, c, merged),
                                               !.old = <<listing>>,
                                               !.newData = <<newData>>,
                                               !.merged = @ \cup {c}]]
                      /\ ev' = [e EXCEPT !.result = "ok", !.saved = TRUE,
                                         !.source = newData.source]
                      /\ UNCHANGED nFetch
                 ELSE /\ rest.fetch => nFetch < MaxFetches
                      /\ nFetch' = nFetch + Issued(rest)
                      /\ ticks' = [ticks EXCEPT ![s] =
                                     AfterScan(rest, t.tnow, t.failed,
                                               t.merged \cup {c})]
                      /\ ev' = [e EXCEPT !.result = "ok", !.saved = TRUE,
                                         !.source = newData.source,
                                         !.issued = rest.cur]
              /\ hist' = [Observed(hist, c, newData) EXCEPT
                            !.ended[c] = IF MovesToEnded(c, merged)
                                         THEN @ + 1 ELSE @,
                            !.failed = @ \ {c},
                            !.recovered = IF c \in hist.failed
                                          THEN @ \cup {c} ELSE @]
              /\ UNCHANGED <<now, discord, nPress, organize, proc, adding, photo, organized, auth>>

\* the two notification texts of updateEbayListing
EndedMessage(newData) ==
  [kind |-> "Auction Ended", finalPrice |-> newData.currentPrice,
   totalBids |-> newData.bidCount]
UpdateMessage(kind, old, newData) ==
  [kind |-> kind,
   oldPrice |-> old.currentPrice, newPrice |-> newData.currentPrice,
   oldBids |-> old.bidCount, newBids |-> newData.bidCount]

\* the text updateEbayListing builds: <<>> when there is none
Notification(old, newData) ==
  IF justEnded(old, newData) THEN <<EndedMessage(newData)>>
  ELSE IF priceChanged(old, newData) \/ bidCountChanged(old, newData)
  THEN <<UpdateMessage("Bid Update", old, newData)>>
  ELSE <<>>

\* how the gateway calls of updateEbayListing can go: the call that throws
\* ("" when none does; a missing channel skips the block without throwing),
\* whether the embed message is among the last 10 messages, and whether the
\* channel rename worked
GatewayOutcomes ==
  { g \in [abort : {"", "guild", "no channel", "messages", "edit", "send"},
           embedFound : BOOLEAN, renameOk : BOOLEAN] :
      g.abort \in {"guild", "no channel", "messages", "edit"}
        => g.embedFound /\ g.renameOk }

\* variant: a rename that fails on justEnded leaves the block, nothing is sent
GatewayEffects_renameAborts(g, old, newData) ==
  LET inChannel == g.abort \notin {"guild", "no channel", "messages"}
      pastEdit == inChannel /\ g.abort # "edit"
      pastRename == pastEdit /\ (justEnded(old, newData) => g.renameOk)
  IN
  [edited |-> pastEdit /\ g.embedFound,
   renamed |-> pastEdit /\ justEnded(old, newData) /\ g.renameOk,
   sent |-> IF pastRename /\ g.abort # "send"
            THEN Notification(old, newData) ELSE <<>>]

\* the embed edit, the rename and the send that updateEbayListing gets done
\* under outcome g
GatewayEffects(g, old, newData) ==
  LET inChannel == g.abort \notin {"guild", "no channel", "messages"}
      pastEdit == inChannel /\ g.abort # "edit"
  IN
  [edited |-> pastEdit /\ g.embedFound,
   renamed |-> pastEdit /\ justEnded(old, newData) /\ g.renameOk,
   sent |-> IF pastEdit /\ g.abort # "send"
            THEN Notification(old, newData) ELSE <<>>]

\* variant: a gateway call that throws puts the record back as it was before
\* the merge
StoreAfterGateway_rolledBack(listings, c, old, g) ==
  IF g.abort \in {"guild", "messages", "edit", "send"}
  THEN Put(listings, c, old) ELSE listings

\* the stored document after the gateway calls: they come after saveDb, and
\* neither they nor the catch block write the file
StoreAfterGateway(listings, c, old, g) == listings

\* the gateway calls of updateEbayListing settle and the loop goes on
TickGatewayDone ==
  \E s \in DOMAIN ticks :
    /\ ticks[s].pc = "gateway"
    /\ LET t == ticks[s]
           c == t.cur
           rest == Scan(Drop(t.db, c), t.tnow, now)
       IN
       \E g \in GatewayOutcomes :
         LET fx == GatewayEffects(g, t.old[1], t.newData[1])
             hasEmbed == discord[c].buttons # {}
             next == IF g.abort \in {"guild", "messages", "edit", "send"}
                     THEN ResumeAfterError(rest) ELSE rest
         IN
         /\ ~hasEmbed => ~g.embedFound
         /\ next.fetch => nFetch < MaxFetches
         /\ nFetch' = nFetch + Issued(next)
         /\ ticks' = [ticks EXCEPT ![s] =
                        AfterScan(next, t.tnow, t.failed, t.merged)]
         /\ discord' =
              IF fx.edited
              THEN [discord EXCEPT ![c].buttons = buildEbayListingButtons(t.db[c])]
              ELSE discord
         /\ hist' = [hist EXCEPT
                       !.posts[c] = IF fx.sent # <<>>
                                       /\ fx.sent[1].kind = "Auction Ended"
                                    THEN @ + 1 ELSE @,
                       !.told[c] = IF fx.sent # <<>>
                                      /\ fx.sent[1].kind = "Bid Update"
                                   THEN <<fx.sent[1].newPrice,
                                          fx.sent[1].newBids>>
                                   ELSE @]
         /\ ev' = [NoEvent EXCEPT !.op = "tick_gateway", !.chan = c,
                                  !.edited = fx.edited,
                                  !.renamed = fx.renamed, !.sent = fx.sent,
                                  !.result = IF g.abort = "" THEN "ok"
                                             ELSE IF g.abort = "no channel"
                                             THEN "no channel" ELSE "failed",
                                  !.issued = next.cur]
         /\ dataFile' = [dataFile EXCEPT !.ebayListings =
                           StoreAfterGateway(@, c, t.old[1], g)]
    /\ UNCHANGED <<now, nPress, finalUpdated, organize, proc, adding, photo, organized, auth>>

\* ------------------------------------------------------------------------
\* Buttons of a tracking channel
\* ------------------------------------------------------------------------
\* a button can be pressed when the embed message of the channel shows it
Shown(c, button) == c \in DOMAIN discord /\ button \in discord[c].buttons

\* variant: the handler answers as if the refresh had worked
RefreshFailed_quiet(message) == "Listing refreshed!"

\* the reply of the catch block of the ebay_refresh handler
RefreshFailed(message) == "Failed to refresh: " \o message

\* the ebay_refresh handler (it asks for no owner or staff); editOk and sendOk
\* say whether the embed edit and the notification went through
EbayRefresh ==
  IF loadDb.threw THEN Uncaught("ebay_refresh") ELSE
  \E c \in Channels, user \in Users :
    /\ Shown(c, "ebay_refresh")
    /\ nFetch < MaxFetches
    /\ IF c \notin DOMAIN dataFile.ebayListings
       THEN /\ ev' = [NoEvent EXCEPT
                        !.op = "ebay_refresh", !.chan = c, !.denied = TRUE,
                        !.user = user,
                        !.reply = "This channel is not an eBay tracking channel."]
            /\ UNCHANGED <<now, dataFile, ticks, discord, nFetch, nPress, finalUpdated, hist, organize, proc, adding, photo, organized, auth>>
       ELSE
         LET ebayListing == dataFile.ebayListings[c] IN
         \E api \in ApiOutcomes(ebayListing.url, isEbayApiEnabled) :
         \E scrape \in ScrapeOutcomes(api) :
         \E editOk \in BOOLEAN, sendOk \in BOOLEAN :
           LET r == getEbayListing(isEbayApiEnabled, api, scrape, now)
               e == [NoEvent EXCEPT !.op = "ebay_refresh", !.chan = c,
                                    !.issued = c, !.user = user,
                                    !.api = Outcome(api),
                                    !.scrape = Outcome(scrape),
                                    !.apiCalls = r.apiCalls,
                                    !.scrapeCalls = r.scrapeCalls,
                                    !.error = r.error,
                                    !.data = r.data]
           IN
           /\ nFetch' = nFetch + 1
           /\ IF ~r.ok
              THEN /\ editOk /\ sendOk
                   /\ ev' = [e EXCEPT !.result = "failed",
                                      !.reply = RefreshFailed(r.error)]
                   /\ UNCHANGED <<dataFile, discord, hist>>
              ELSE LET newData == r.data[1]
                       merged == MergeSnapshot(ebayListing, newData, now)
                       changed == priceChanged(ebayListing, newData)
                                    \/ bidCountChanged(ebayListing, newData)
                   IN
                   /\ (~editOk \/ ~changed) => sendOk
                   /\ dataFile' = [dataFile EXCEPT !.ebayListings = Put(@, c, merged)]
                   /\ hist' = Observed(hist, c, newData)
                   /\ discord' =
                        IF editOk
                        THEN [discord EXCEPT ![c].buttons = buildEbayListingButtons(merged)]
                        ELSE discord
                   /\ ev' = [e EXCEPT
                               !.result = "ok", !.saved = TRUE,
                               !.source = newData.source,
                               !.edited = editOk,
                               !.reply = IF editOk /\ sendOk
                                         THEN "Listing refreshed!"
                                         ELSE RefreshFailed("gateway error"),
                               !.sent = IF editOk /\ changed /\ sendOk
                                        THEN <<UpdateMessage("Listing Updated",
                                                             ebayListing, newData)>>
                                        ELSE <<>>]
           /\ UNCHANGED <<now, ticks, nPress, finalUpdated, organize, proc, adding, photo, organized, auth>>

\* the status a status button stores
ButtonStatus(button) ==
  CASE button = "ebay_sold" -> "sold"
    [] button = "ebay_shipped" -> "shipped"
    [] button = "ebay_close" -> "closed"

\* the ebay_sold, ebay_shipped and ebay_close handlers: user presses button in
\* channel c; editOk says whether the embed edit of sold / shipped worked
StatusButton(button) ==
  IF loadDb.threw THEN Uncaught(button) ELSE
  \E c \in Channels, user \in Users :
    /\ Shown(c, button)
    /\ nPress < MaxPresses
    /\ nPress' = nPress + 1
    /\ IF c \notin DOMAIN dataFile.ebayListings
       THEN /\ ev' = [NoEvent EXCEPT !.op = button, !.chan = c, !.denied = TRUE,
                                     !.user = user]
            /\ UNCHANGED <<dataFile, discord>>
       ELSE
         LET ebayListing == dataFile.ebayListings[c]
             isOwner == user = ebayListing.ownerId
             isStaff == memberIsStaff(user)
             marked == [ebayListing EXCEPT !.status = ButtonStatus(button)]
         IN
         IF ~isOwner /\ ~isStaff
         THEN /\ ev' = [NoEvent EXCEPT !.op = button, !.chan = c,
                                       !.denied = TRUE, !.user = user]
              /\ UNCHANGED <<dataFile, discord>>
         ELSE \E editOk \in BOOLEAN :
                /\ button = "ebay_close" => ~editOk
                /\ dataFile' = [dataFile EXCEPT !.ebayListings = Put(@, c, marked)]
                /\ discord' =
                     IF editOk
                     THEN [discord EXCEPT ![c].buttons = buildEbayListingButtons(marked)]
                     ELSE discord
                /\ ev' = [NoEvent EXCEPT !.op = button, !.chan = c,
                                         !.user = user,
                                         !.saved = TRUE, !.edited = editOk]
    /\ UNCHANGED <<now, ticks, nFetch, finalUpdated, hist, organize, proc, adding, photo, organized, auth>>

EbaySold == StatusButton("ebay_sold")
EbayShipped == StatusButton("ebay_shipped")
EbayClose == StatusButton("ebay_close")

\* ------------------------------------------------------------------------
\* The /ebay-organize command
\* ------------------------------------------------------------------------
\* the InteractionCreate handler loads the document and the command starts:
\* with no listing it replies and returns, else it goes through its gateway
\* calls (one channel fetch, move and rename per listing) holding the
\* document it loaded
EbayOrganizeStart ==
  IF loadDb.threw THEN Uncaught("ebay_organize") ELSE
  /\ organize.pc = "idle"
  /\ organize.runs < MaxOrganize
  /\ IF DOMAIN dataFile.ebayListings = {}
     THEN /\ organize' = [organize EXCEPT !.runs = @ + 1]
          /\ ev' = [NoEvent EXCEPT !.op = "ebay_organize", !.denied = TRUE]
     ELSE /\ organize' = [pc |-> "run", db |-> <<dataFile>>,
                          runs |-> organize.runs + 1]
          /\ ev' = [NoEvent EXCEPT !.op = "ebay_organize"]
  /\ UNCHANGED <<now, dataFile, ticks, discord, nFetch, nPress, finalUpdated,
                 hist, proc, adding, photo, organized, auth>>

\* the gateway calls of the command are through: unless deferReply or the
\* guild fetch threw (reached = FALSE), every listing was put back into the
\* loaded document as it was loaded (each stored listing has its listingType,
\* so none is fetched) and the loaded document is saved as a whole
EbayOrganizeDone ==
  /\ organize.pc = "run"
  /\ \E reached \in BOOLEAN :
       /\ dataFile' = IF reached THEN organize.db[1] ELSE dataFile
       /\ ev' = [NoEvent EXCEPT !.op = "ebay_organize_done",
                                !.saved = reached]
  /\ organize' = [organize EXCEPT !.pc = "idle", !.db = NULL]
  /\ UNCHANGED <<now, ticks, discord, nFetch, nPress, finalUpdated, hist, proc, adding, photo, organized, auth>>

\* ------------------------------------------------------------------------
\* Specifications
\* ------------------------------------------------------------------------
\* a record the ebay_modal handler stored at T0 for the page item, scraped
Created(url, item) == NewListing(url, "u1", scrapeEbayListing(item), T0)

\* a tracking channel as earlier handlers can have left it: the stored record
\* and the buttons on its embed
Created1(url, item) ==
  [rec |-> Created(url, item),
   buttons |-> buildEbayListingButtons(Created(url, item))]
Pressed(entry, button, edit) ==
  LET marked == [entry.rec EXCEPT !.status = ButtonStatus(button)] IN
  [rec |-> marked,
   buttons |-> IF edit THEN buildEbayListingButtons(marked) ELSE entry.buttons]

Tracked(url) ==
  LET created == {Created1(url, i) : i \in Items} IN
  created
    \cup {Pressed(e, "ebay_close", FALSE) :
            e \in {x \in created : "ebay_close" \in x.buttons}}
    \cup {Pressed(e, "ebay_sold", TRUE) :
            e \in {x \in created : "ebay_sold" \in x.buttons}}
    \cup {Pressed(e, "ebay_shipped", TRUE) :
            e \in {x \in created : "ebay_shipped" \in x.buttons}}

\* the second tracking channel: a running auction, one whose deadline has
\* passed, or a closed one
Tracked2(url) ==
  LET running == Created1(url, Item(1, "$10", 2, <<Soon>>, FALSE, "auction"))
      over == Created1(url, Item(1, "$10", 2, <<Past>>, FALSE, "auction"))
  IN {running, over, Pressed(running, "ebay_close", FALSE)}

\* the process runs on a data file in which the listings of e1 and e2 are
\* tracked, the first by its item url and the second by a share link
Started(e1, e2, creds) ==
  /\ now = T0
  /\ dataFile = [ebayListings |-> [c \in Channels |->
                                     IF c = "c1" THEN e1.rec ELSE e2.rec],
                 ebayCredentials |-> creds, missing |-> FALSE]
  /\ discord = [c \in Channels |->
                  [buttons |-> IF c = "c1" THEN e1.buttons ELSE e2.buttons]]
  /\ ticks = [s \in Slots |-> IdleTick]
  /\ ev = NoEvent
  /\ nFetch = 0
  /\ nPress = 0
  /\ finalUpdated = {}
  /\ hist = NoHistory
  /\ organize = NoOrganize
  /\ proc = Running
  /\ adding = NoAdding
  /\ photo = NoPhoto
  /\ organized = NoOrganized
  /\ auth = NoAuth

\* the process starts with or without stored API credentials
Init ==
  \E e1 \in Tracked("https://www.ebay.com/itm/1234") :
  \E e2 \in Tracked2("https://ebay.us/m/xyz") :
  \E creds \in {NULL, <<"app-1">>} :
    Started(e1, e2, creds)

\* the process starts with one tracked listing and without API credentials
InitSingle ==
  /\ now = T0
  /\ \E e1 \in Tracked("https://www.ebay.com/itm/1234") :
       /\ dataFile = [ebayListings |-> Put(EmptyListings, "c1", e1.rec),
                      ebayCredentials |-> NULL, missing |-> FALSE]
       /\ discord = Put(EmptyListings, "c1", [buttons |-> e1.buttons])
  /\ ticks = [s \in Slots |-> IdleTick]
  /\ ev = NoEvent
  /\ nFetch = 0
  /\ nPress = 0
  /\ finalUpdated = {}
  /\ hist = NoHistory
  /\ organize = NoOrganize
  /\ proc = Running
  /\ adding = NoAdding
  /\ photo = NoPhoto
  /\ organized = NoOrganized
  /\ auth = NoAuth

\* the listings the /ebay-organize runs start from: a running auction, one
\* whose deadline has passed, a buy-it-now listing and a sold one
TrackedFew(url) ==
  LET running == Created1(url, Item(1, "$10", 2, <<Soon>>, FALSE, "auction"))
      over == Created1(url, Item(1, "$10", 2, <<Past>>, FALSE, "auction"))
      fixed == Created1(url, Item(1, "$10", 0, NULL, FALSE, "buy_it_now"))
  IN {running, over, fixed, Pressed(fixed, "ebay_sold", TRUE)}

\* one of these listings has just been added (the getEbayListing call of the
\* ebay_modal handler is counted) and no API credentials are stored
InitOrganize ==
  /\ now = T0
  /\ \E e1 \in TrackedFew("https://www.ebay.com/itm/1234") :
       /\ dataFile = [ebayListings |-> Put(EmptyListings, "c1", e1.rec),
                      ebayCredentials |-> NULL, missing |-> FALSE]
       /\ discord = Put(EmptyListings, "c1", [buttons |-> e1.buttons])
  /\ ticks = [s \in Slots |-> IdleTick]
  /\ ev = NoEvent
  /\ nFetch = 1
  /\ nPress = 0
  /\ finalUpdated = {}
  /\ hist = NoHistory
  /\ organize = NoOrganize
  /\ proc = Running
  /\ adding = NoAdding
  /\ photo = NoPhoto
  /\ organized = NoOrganized
  /\ auth = NoAuth

\* as InitSingle for the listings the /ebay-organize runs start from, with
\* room for one callback more than MaxTicks: setInterval does not wait for
\* the promise of an async callback before it calls the next one
InitOverlap ==
  /\ now = T0
  /\ \E e1 \in TrackedFew("https://www.ebay.com/itm/1234") :
       /\ dataFile = [ebayListings |-> Put(EmptyListings, "c1", e1.rec),
                      ebayCredentials |-> NULL, missing |-> FALSE]
       /\ discord = Put(EmptyListings, "c1", [buttons |-> e1.buttons])
  /\ ticks = [s \in 1..(MaxTicks + 1) |-> IdleTick]
  /\ ev = NoEvent
  /\ nFetch = 0
  /\ nPress = 0
  /\ finalUpdated = {}
  /\ hist = NoHistory
  /\ organize = NoOrganize
  /\ proc = Running
  /\ adding = NoAdding
  /\ photo = NoPhoto
  /\ organized = NoOrganized
  /\ auth = NoAuth

\* the process has logged in, with or without ebayIntakeChannelId in its
\* configuration, on a data file with one listing; the gateway has not yet
\* reported ready
InitBoot ==
  /\ now = T0
  /\ \E e1 \in TrackedFew("https://www.ebay.com/itm/1234") :
       /\ dataFile = [ebayListings |-> Put(EmptyListings, "c1", e1.rec),
                      ebayCredentials |-> NULL, missing |-> FALSE]
       /\ discord = Put(EmptyListings, "c1", [buttons |-> e1.buttons])
  /\ ticks = [s \in Slots |-> IdleTick]
  /\ ev = NoEvent
  /\ nFetch = 0
  /\ nPress = 0
  /\ finalUpdated = {}
  /\ hist = NoHistory
  /\ organize = NoOrganize
  /\ \E intake \in BOOLEAN : proc = Booting(intake)
  /\ adding = NoAdding
  /\ photo = NoPhoto
  /\ organized = NoOrganized
  /\ auth = NoAuth

\* the deadlines around the thresholds of the interval policy
EndTimes ==
  {NULL, <<0>>, <<1>>, <<T0 - 1>>, <<T0>>, <<T0 + 1>>,
   <<T0 + HOUR - 1>>, <<T0 + HOUR>>, <<T0 + 2 * MINUTE + HOUR>>,
   <<T0 + 8 * HOUR - 1>>, <<T0 + 8 * HOUR>>,
   <<T0 + 3 * DAY - 1>>, <<T0 + 3 * DAY>>, <<T0 + 10 * DAY>>}

\* the process starts, without API credentials, with one tracked auction whose
\* deadline is one of EndTimes
InitInterval ==
  /\ now = T0
  /\ \E endTime \in EndTimes :
       LET e1 == Created1("https://www.ebay.com/itm/1234",
                          Item(1, "$10", 2, endTime, FALSE, "auction"))
       IN
       /\ dataFile = [ebayListings |-> Put(EmptyListings, "c1", e1.rec),
                      ebayCredentials |-> NULL, missing |-> FALSE]
       /\ discord = Put(EmptyListings, "c1", [buttons |-> e1.buttons])
  /\ ticks = [s \in Slots |-> IdleTick]
  /\ ev = NoEvent
  /\ nFetch = 0
  /\ nPress = 0
  /\ finalUpdated = {}
  /\ hist = NoHistory
  /\ organize = NoOrganize
  /\ proc = Running
  /\ adding = NoAdding
  /\ photo = NoPhoto
  /\ organized = NoOrganized
  /\ auth = NoAuth

\* the update loop alone
LoopNext ==
  \/ Advance
  \/ TickStart
  \/ TickFetchDone
  \/ TickGatewayDone

SpecLoop == Init /\ [][LoopNext]_vars

\* the update loop with callbacks that may outlast the timer's period
OverlapNext ==
  \/ Advance
  \/ TickStart
  \/ TickFetchDone
  \/ TickGatewayDone

SpecOverlap == InitOverlap /\ [][OverlapNext]_vars

\* the start of the process and the update loop
BootNext ==
  \/ ClientReady
  \/ ClientReadyDone
  \/ Advance
  \/ TickStart
  \/ TickFetchDone
  \/ TickGatewayDone

SpecBoot == InitBoot /\ [][BootNext]_vars

\* the update loop over deadlines around the policy's thresholds
IntervalNext ==
  \/ Advance
  \/ TickStart
  \/ TickFetchDone
  \/ TickGatewayDone

SpecInterval == InitInterval /\ [][IntervalNext]_vars

\* the update loop and the buttons of the tracking channels
Next ==
  \/ Advance
  \/ TickStart
  \/ TickFetchDone
  \/ TickGatewayDone
  \/ EbayRefresh
  \/ EbaySold
  \/ EbayShipped
  \/ EbayClose

Spec == InitSingle /\ [][Next]_vars

\* the update loop, the buttons and the /ebay-organize command
OrganizeNext ==
  \/ Advance
  \/ TickStart
  \/ TickFetchDone
  \/ TickGatewayDone
  \/ EbayRefresh
  \/ EbaySold
  \/ EbayShipped
  \/ EbayClose
  \/ EbayOrganizeStart
  \/ EbayOrganizeDone

SpecOrganize == InitOrganize /\ [][OrganizeNext]_vars

\* listings are added and organized while the loop has nothing to do
AddNext ==
  \/ Advance
  \/ EbayModalSubmit
  \/ EbayModalDone
  \/ EbayOrganizeStart
  \/ EbayOrganizeDone

SpecAdd == InitSingle /\ [][AddNext]_vars

\* a fresh installation in which listings are added
IntakeNext ==
  \/ Advance
  \/ EbayModalSubmit
  \/ EbayModalDone
  \/ TickStart
  \/ TickFetchDone
  \/ TickGatewayDone

SpecIntake == InitEmpty /\ [][IntakeNext]_vars

\* one tracked listing whose data file can get lost while the loop runs and
\* members press buttons, add listings and run /ebay-organize
FileNext ==
  \/ Advance
  \/ FileLost
  \/ TickStart
  \/ TickFetchDone
  \/ TickGatewayDone
  \/ EbayRefresh
  \/ EbaySold
  \/ EbayModalSubmit
  \/ EbayModalDone
  \/ EbayOrganizeStart
  \/ EbayOrganizeDone

\* one listing is tracked and all but one of the getEbayListing calls the
\* model allows have been made
InitFile ==
  /\ now = T0
  /\ \E e1 \in TrackedFew("https://www.ebay.com/itm/1234") :
       /\ dataFile = [ebayListings |-> Put(EmptyListings, "c1", e1.rec),
                      ebayCredentials |-> NULL, missing |-> FALSE]
       /\ discord = Put(EmptyListings, "c1", [buttons |-> e1.buttons])
  /\ ticks = [s \in Slots |-> IdleTick]
  /\ ev = NoEvent
  /\ nFetch = MaxFetches - 1
  /\ nPress = 0
  /\ finalUpdated = {}
  /\ hist = NoHistory
  /\ organize = NoOrganize
  /\ proc = Running
  /\ adding = NoAdding
  /\ photo = NoPhoto
  /\ organized = NoOrganized
  /\ auth = NoAuth

SpecFile == InitFile /\ [][FileNext]_vars

\* one tracked listing, the update loop, the sold and close buttons, and
\* members who add listings
RaceNext ==
  \/ Advance
  \/ TickStart
  \/ TickFetchDone
  \/ TickGatewayDone
  \/ EbaySold
  \/ EbayClose
  \/ EbayModalSubmit
  \/ EbayModalDone

SpecRace == InitOrganize /\ [][RaceNext]_vars

\* ------------------------------------------------------------------------
\* /ebay-organize: category and leading emoji of one channel
\* ------------------------------------------------------------------------
\* a JavaScript string is a sequence of UTF-16 code units: the hammer
\* (U+1F528) and the money bag (U+1F4B0) take two (a surrogate pair), the
\* check mark (U+2705) takes one
Hammer == <<"D83D", "DD28">>
MoneyBag == <<"D83D", "DCB0">>
CheckMark == <<"2705">>
HighSurrogates == {"D83D"}
LowSurrogates == {"DD28", "DCB0"}

\* name.charAt(0) and name.slice(1)
charAt0(name) == IF name = <<>> THEN <<>> ELSE <<name[1]>>
slice1(name) == IF name = <<>> THEN <<>> ELSE Tail(name)

\* a name without its unpaired surrogates
RECURSIVE WellFormed(_)
WellFormed(name) ==
  IF name = <<>> THEN <<>>
  ELSE IF name[1] \in HighSurrogates
  THEN IF Len(name) > 1 /\ name[2] \in LowSurrogates
       THEN <<name[1], name[2]>> \o WellFormed(SubSeq(name, 3, Len(name)))
       ELSE WellFormed(Tail(name))
  ELSE IF name[1] \in LowSurrogates THEN WellFormed(Tail(name))
  ELSE <<name[1]>> \o WellFormed(Tail(name))

\* correctCategoryId and correctEmoji for a listing
Correct(listing) ==
  IF listing.status = "shipped"
  THEN [categoryId |-> "ebayArchivedCategoryId", emoji |-> CheckMark]
  ELSE IF listing.status \in {"ended", "sold"}
  THEN [categoryId |-> IF listing.listingType = <<"buy_it_now">>
                       THEN "ebayBuyItNowCategoryId"
                       ELSE "ebayAuctionsCategoryId",
        emoji |-> CheckMark]
  ELSE IF listing.listingType = <<"buy_it_now">>
  THEN [categoryId |-> "ebayBuyItNowCategoryId", emoji |-> MoneyBag]
  ELSE [categoryId |-> "ebayAuctionsCategoryId", emoji |-> Hammer]

\* variant: the leading emoji is compared and replaced by code point
needsEmojiUpdate_byCodePoint(name, correctEmoji) ==
  SubSeq(name, 1, Len(correctEmoji)) # correctEmoji

\* const currentEmoji = channel.name.charAt(0);
\* if (currentEmoji !== correctEmoji) needsEmojiUpdate = true
needsEmojiUpdate(name, correctEmoji) == charAt0(name) # correctEmoji

\* const newName = correctEmoji + channel.name.slice(1)
newName(name, correctEmoji) == correctEmoji \o slice1(name)

ListingTypes == {"auction", "buy_it_now", "auction_with_bin"}
NoResults ==
  [moved |-> 0, emojiUpdated |-> 0, typeDetected |-> 0, errors |-> 0,
   skipped |-> 0]

\* how the guild stores the name setName was given: as given, or without its
\* unpaired surrogates
SetNameOutcomes == {"given", "well-formed", "threw"}

\* one /ebay-organize run over the channel, with the outcomes of its gateway
\* calls: found (guild.channels.fetch), fresh (getEbayListing, called when
\* the listing has no listingType: NULL when it threw), moveOk (setParent)
\* and rename (setName).  The run's result, the channel and the listing
\* afterwards.
OrganizeChannel(o, found, fresh, moveOk, rename) ==
  IF ~found
  THEN [o EXCEPT !.results = Append(@, [NoResults EXCEPT !.skipped = 1])]
  ELSE IF o.listing.listingType = NULL /\ fresh = NULL
  THEN [o EXCEPT !.results = Append(@, [NoResults EXCEPT !.errors = 1])]
  ELSE
    LET detected == o.listing.listingType = NULL
        listing == IF detected
                   THEN [o.listing EXCEPT !.listingType = fresh]
                   ELSE o.listing
        correct == Correct(listing)
        needsMove == o.channel.parentId # <<correct.categoryId>>
        needsRename == needsEmojiUpdate(o.channel.name, correct.emoji)
        moved == needsMove /\ moveOk
        renamed == (needsMove => moveOk) /\ needsRename /\ rename # "threw"
        threw == (needsMove /\ ~moveOk)
                   \/ ((needsMove => moveOk) /\ needsRename /\ rename = "threw")
        given == newName(o.channel.name, correct.emoji)
    IN [listing |-> listing,
        channel |-> [parentId |-> IF moved THEN <<correct.categoryId>>
                                  ELSE o.channel.parentId,
                     name |-> IF ~renamed THEN o.channel.name
                              ELSE IF rename = "given" THEN given
                              ELSE WellFormed(given)],
        results |-> Append(o.results,
                           [NoResults EXCEPT
                              !.typeDetected = IF detected THEN 1 ELSE 0,
                              !.moved = IF moved THEN 1 ELSE 0,
                              !.emojiUpdated = IF renamed THEN 1 ELSE 0,
                              !.errors = IF threw THEN 1 ELSE 0])]

\* a member runs /ebay-organize
OrganizeRun ==
  /\ Len(organized.results) < MaxRuns
  /\ \E found \in BOOLEAN, moveOk \in BOOLEAN, rename \in SetNameOutcomes,
        fresh \in {NULL} \cup {<<t>> : t \in ListingTypes} :
       organized' = OrganizeChannel(organized, found, fresh, moveOk, rename)
  /\ UNCHANGED <<now, dataFile, ticks, discord, ev, nFetch, nPress,
                 finalUpdated, hist, organize, proc, adding, photo, auth>>

\* a tracking channel as the ebay_modal handler names it ("x" stands for the
\* slug), or with the check mark the update loop or Mark as Sold put in
\* front, in any of the categories or in none, and its stored listing
InitOrganized ==
  /\ now = T0
  /\ dataFile = [ebayListings |-> EmptyListings, ebayCredentials |-> NULL, missing |-> FALSE]
  /\ ticks = [s \in Slots |-> IdleTick]
  /\ discord = EmptyListings
  /\ ev = NoEvent
  /\ nFetch = 0
  /\ nPress = 0
  /\ finalUpdated = {}
  /\ hist = NoHistory
  /\ organize = NoOrganize
  /\ proc = Running
  /\ adding = NoAdding
  /\ photo = NoPhoto
  /\ \E emoji \in {Hammer, MoneyBag, CheckMark},
        parentId \in {NULL, <<"ebayAuctionsCategoryId">>,
                      <<"ebayBuyItNowCategoryId">>,
                      <<"ebayArchivedCategoryId">>},
        status \in {"active", "ended", "sold", "shipped"},
        listingType \in {NULL} \cup {<<t>> : t \in ListingTypes} :
       organized = [listing |-> [status |-> status, listingType |-> listingType],
                    channel |-> [name |-> emoji \o <<"x">>, parentId |-> parentId],
                    results |-> <<>>]
  /\ auth = NoAuth

OrganizedNext ==
  \/ OrganizeRun

SpecOrganized == InitOrganized /\ [][OrganizedNext]_vars

\* ------------------------------------------------------------------------
\* The eBay access token
\* ------------------------------------------------------------------------
\* the app ids a member may enter in the ebay_setup_modal
AppIds == {"app-1", "app-2"}

\* data.expires_in of a token response, in seconds
ExpiresIn == {7 * 60, 2 * 60 * 60}

\* data.access_token of the response to a request made with creds
Token(creds) == <<[issuedFor |-> creds]>>

\* getEbayCredentials(): those of the stored document (config.json holds none)
getEbayCredentials == dataFile.ebayCredentials

\* the test at the top of getEbayAccessToken: a cached token that is valid
\* for more than five minutes
CachedToken(a, clock) ==
  a.ebayAccessToken # NULL /\ clock < a.ebayTokenExpiry - 300000

\* ebayAccessToken = data.access_token; ebayTokenExpiry = Date.now() +
\* data.expires_in * 1000, for the response to a request made with creds
CacheResponse(a, creds, clock, expires) ==
  [a EXCEPT !.ebayAccessToken = Token(creds),
            !.ebayTokenExpiry = clock + expires * 1000]

\* getEbayListing takes the API strategy: fetchEbayListingViaAPI awaits
\* getEbayAccessToken, which returns the cached token (the API request goes
\* out with it) or requests one with the stored credentials
FetchViaApiStart ==
  \E i \in Callers :
    /\ auth.callers[i].pc = "idle"
    /\ isEbayApiEnabled
    /\ IF CachedToken(auth, now)
       THEN auth' = [auth EXCEPT
                       !.last = [op |-> "api", token |-> auth.ebayAccessToken]]
       ELSE auth' = [auth EXCEPT
                       !.callers[i] = [pc |-> "token",
                                       creds |-> getEbayCredentials],
                       !.last = [op |-> "token request", token |-> NULL]]
    /\ UNCHANGED <<now, dataFile, ticks, discord, ev, nFetch, nPress,
                   finalUpdated, hist, organize, proc, adding, photo, organized>>

\* the token request of a fetchEbayListingViaAPI call settles: it failed
\* (getEbayAccessToken throws), or the token is cached and the API request
\* goes out with it
TokenResponse ==
  \E i \in Callers, ok \in BOOLEAN, expires \in ExpiresIn :
    /\ auth.callers[i].pc = "token"
    /\ LET c == auth.callers[i] IN
       auth' = IF ok
               THEN [CacheResponse(auth, c.creds, now, expires) EXCEPT
                       !.callers[i] = NoCaller,
                       !.last = [op |-> "api", token |-> Token(c.creds)]]
               ELSE [auth EXCEPT
                       !.callers[i] = NoCaller,
                       !.last = [op |-> "token failed", token |-> NULL]]
    /\ UNCHANGED <<now, dataFile, ticks, discord, ev, nFetch, nPress,
                   finalUpdated, hist, organize, proc, adding, photo, organized>>

\* a member submits the ebay_setup_modal with an app id (and a cert id): the
\* listener loads the document and the handler waits for deferReply
EbaySetupSubmit ==
  \E appId \in AppIds :
    /\ auth.admin.pc = "idle"
    /\ auth.commands < MaxSetups
    /\ auth' = [auth EXCEPT
                  !.admin = [pc |-> "setup", db |-> <<loadDb.db>>,
                             appId |-> appId],
                  !.commands = @ + 1,
                  !.last = NoApiCall]
    /\ UNCHANGED <<now, dataFile, ticks, discord, ev, nFetch, nPress,
                   finalUpdated, hist, organize, proc, adding, photo, organized>>

\* deferReply settles: it threw (the handler ends), or the handler saves its
\* document with the new credentials, clears the cached token and requests
\* a token with them to test them
EbaySetupSave ==
  /\ auth.admin.pc = "setup"
  /\ \E ok \in BOOLEAN :
       IF ok
       THEN /\ dataFile' = [auth.admin.db[1] EXCEPT
                              !.ebayCredentials = <<auth.admin.appId>>,
                              !.missing = FALSE]
            /\ auth' = [auth EXCEPT
                          !.ebayAccessToken = NULL,
                          !.ebayTokenExpiry = 0,
                          !.admin.pc = "test",
                          !.admin.db = NULL,
                          !.last = [op |-> "token request", token |-> NULL]]
       ELSE /\ auth' = [auth EXCEPT !.admin = NoAdmin, !.last = NoApiCall]
            /\ UNCHANGED dataFile
  /\ UNCHANGED <<now, ticks, discord, ev, nFetch, nPress, finalUpdated, hist,
                 organize, proc, adding, photo, organized>>

\* the token request of the test settles
EbaySetupTested ==
  /\ auth.admin.pc = "test"
  /\ \E ok \in BOOLEAN, expires \in ExpiresIn :
       auth' = [(IF ok
                 THEN CacheResponse(auth, <<auth.admin.appId>>, now, expires)
                 ELSE auth)
                  EXCEPT !.admin = NoAdmin,
                         !.last = [op |-> IF ok THEN "token tested"
                                                ELSE "token failed",
                                   token |-> NULL]]
  /\ UNCHANGED <<now, dataFile, ticks, discord, ev, nFetch, nPress,
                 finalUpdated, hist, organize, proc, adding, photo, organized>>

\* a member runs /ebay-clear: the listener loads the document and the handler
\* waits for deferReply
EbayClearSubmit ==
  /\ auth.admin.pc = "idle"
  /\ auth.commands < MaxSetups
  /\ auth' = [auth EXCEPT
                !.admin = [pc |-> "clear", db |-> <<loadDb.db>>, appId |-> ""],
                !.commands = @ + 1,
                !.last = NoApiCall]
  /\ UNCHANGED <<now, dataFile, ticks, discord, ev, nFetch, nPress,
                 finalUpdated, hist, organize, proc, adding, photo, organized>>

\* deferReply settles: it threw, or no credentials are stored (a reply), or
\* the handler saves its document without credentials and clears the cached
\* token
EbayClearSave ==
  /\ auth.admin.pc = "clear"
  /\ \E ok \in BOOLEAN :
       IF ok /\ getEbayCredentials # NULL
       THEN /\ dataFile' = [auth.admin.db[1] EXCEPT
                              !.ebayCredentials = NULL,
                              !.missing = FALSE]
            /\ auth' = [auth EXCEPT
                          !.ebayAccessToken = NULL,
                          !.ebayTokenExpiry = 0,
                          !.admin = NoAdmin,
                          !.last = [op |-> "cleared", token |-> NULL]]
       ELSE /\ auth' = [auth EXCEPT !.admin = NoAdmin, !.last = NoApiCall]
            /\ UNCHANGED dataFile
  /\ UNCHANGED <<now, ticks, discord, ev, nFetch, nPress, finalUpdated, hist,
                 organize, proc, adding, photo, organized>>

\* credentials app-1 are stored, no token is cached
InitAuth ==
  /\ now = T0
  /\ dataFile = [ebayListings |-> EmptyListings, ebayCredentials |-> <<"app-1">>, missing |-> FALSE]
  /\ ticks = [s \in Slots |-> IdleTick]
  /\ discord = EmptyListings
  /\ ev = NoEvent
  /\ nFetch = 0
  /\ nPress = 0
  /\ finalUpdated = {}
  /\ hist = NoHistory
  /\ organize = NoOrganize
  /\ proc = Running
  /\ adding = NoAdding
  /\ photo = NoPhoto
  /\ organized = NoOrganized
  /\ auth = NoAuth

AuthNext ==
  \/ Advance
  \/ FetchViaApiStart
  \/ TokenResponse
  \/ EbaySetupSubmit
  \/ EbaySetupSave
  \/ EbaySetupTested
  \/ EbayClearSubmit
  \/ EbayClearSave

SpecAuth == InitAuth /\ [][AuthNext]_vars

\* ------------------------------------------------------------------------
\* Photo tickets
\* ------------------------------------------------------------------------
\* the variables the photo-ticket handlers leave alone
trackingVars ==
  <<now, dataFile, ticks, discord, ev, nFetch, nPress, finalUpdated, hist,
    organize, proc, adding, organized, auth>>

\* the tickets of the stored document
Tickets == photo.db.listings

\* existingOpen: the channel ids whose ticket, in document db, belongs to user
\* and has status open
existingOpen(db, user) ==
  {c \in DOMAIN db.listings :
     db.listings[c].ownerId = user /\ db.listings[c].status = "open"}

\* the ticket the listing_modal handler persists
NewTicket(user) == [ownerId |-> user, images |-> <<>>, status |-> "open"]

\* variant: the handler loads the document again before it adds its ticket
PersistTicket_reloaded(fresh, own, c, ticket) ==
  [fresh EXCEPT !.listings = Put(@, c, ticket)]

\* the document the listing_modal handler saves: db.listings[channel.id] =
\* {...}; saveDb(db), where db (own) is the document loaded when the
\* interaction arrived and fresh the one stored at the moment of the save
PersistTicket(fresh, own, c, ticket) ==
  [own EXCEPT !.listings = Put(@, c, ticket)]

\* ClientReady: ensurePanelMessage loads the document and waits for the guild,
\* the intake channel and (if panelMessageId is set) the panel message
EnsurePanelStart ==
  /\ photo.panel.pc = "boot"
  /\ photo' = [photo EXCEPT
                 !.panel = [pc |-> "wait", db |-> <<photo.db>>],
                 !.last = [NoPhotoEvent EXCEPT !.op = "ready"]]
  /\ UNCHANGED trackingVars

\* ensurePanelMessage goes on: a fetch failed (the error is logged), the
\* existing panel message was found (return), or the panel was posted and
\* the document loaded at the start is saved with its id
EnsurePanelDone ==
  /\ photo.panel.pc = "wait"
  /\ \E outcome \in {"threw", "posted"} \cup
                     (IF photo.panel.db[1].panelMessageId # NULL
                      THEN {"found"} ELSE {}) :
       photo' = [photo EXCEPT
                   !.panel = [pc |-> "done", db |-> NULL],
                   !.db = IF outcome = "posted"
                          THEN [photo.panel.db[1] EXCEPT
                                  !.panelMessageId = <<"panel">>]
                          ELSE @,
                   !.last = [NoPhotoEvent EXCEPT
                               !.op = "ensurePanelMessage",
                               !.saved = outcome = "posted"]]
  /\ UNCHANGED trackingVars

\* a member submits the listing_modal: the InteractionCreate listener loads
\* the document and the handler waits for deferReply (the gateway delivers
\* interactions and messages once it has reported ready)
ListingModalSubmit ==
  \E i \in ModalSlots, user \in Users :
    /\ photo.panel.pc # "boot"
    /\ photo.creating[i].pc = "idle"
    /\ Cardinality(DOMAIN photo.created)
         + Cardinality({j \in ModalSlots : photo.creating[j].pc # "idle"})
         < MaxTickets
    /\ photo' = [photo EXCEPT
                   !.creating[i] = [pc |-> "defer", db |-> <<photo.db>>,
                                    user |-> user],
                   !.last = [NoPhotoEvent EXCEPT !.op = "listing_modal",
                                                 !.user = user]]
    /\ UNCHANGED trackingVars

\* deferReply settles: it threw (the handler ends), or the handler finds an
\* open ticket of the member in its document and replies (first revision
\* only: enforce), or it goes on to fetch the guild and create the channel
ListingModalAfterDefer(enforce) ==
  \E i \in ModalSlots, ok \in BOOLEAN :
    /\ photo.creating[i].pc = "defer"
    /\ LET h == photo.creating[i]
           refused == enforce /\ existingOpen(h.db[1], h.user) # {}
       IN photo' = [photo EXCEPT
                      !.creating[i] = IF ok /\ ~refused
                                      THEN [h EXCEPT !.pc = "create"]
                                      ELSE NoCreating,
                      !.last = [NoPhotoEvent EXCEPT
                                  !.op = IF ~ok THEN "listing_modal threw"
                                         ELSE IF refused
                                         THEN "listing_modal refused"
                                         ELSE "listing_modal deferred",
                                  !.user = h.user]]
    /\ UNCHANGED trackingVars

\* the first revision, which allows one open ticket per user
ListingModalDeferred == ListingModalAfterDefer(TRUE)

\* the latest revision, which has no such test
ListingModalDeferredLatest == ListingModalAfterDefer(FALSE)

\* guilds.fetch and guild.channels.create settle: one of them threw (the
\* handler ends), or the channel exists and the handler persists the ticket
ListingModalCreated ==
  \E i \in ModalSlots, ok \in BOOLEAN :
    /\ photo.creating[i].pc = "create"
    /\ LET h == photo.creating[i]
           c == Cardinality(DOMAIN photo.created) + 1
       IN photo' = [photo EXCEPT
                      !.creating[i] = NoCreating,
                      !.created = IF ok THEN Put(@, c, h.user) ELSE @,
                      !.db = IF ok
                             THEN PersistTicket(@, h.db[1], c, NewTicket(h.user))
                             ELSE @,
                      !.last = [NoPhotoEvent EXCEPT
                                  !.op = IF ok THEN "listing_modal created"
                                         ELSE "listing_modal threw",
                                  !.chan = IF ok THEN c ELSE Lobby,
                                  !.user = h.user,
                                  !.saved = ok]]
    /\ UNCHANGED trackingVars

\* the status the listing_done and listing_close buttons store
TicketStatus(button) ==
  IF button = "listing_done" THEN "images_done" ELSE "closed"

\* a member presses Done Uploading or Close Ticket in channel c: no ticket,
\* or neither owner nor staff (a reply, nothing saved), or the status is set
\* and the document saved before the first await
ListingButton(button) ==
  \E c \in DOMAIN photo.created \cup {Lobby}, user \in Users :
    /\ photo.panel.pc # "boot"
    /\ LET db == photo.db
           allowed == /\ c \in DOMAIN db.listings
                      /\ \/ user = db.listings[c].ownerId
                         \/ memberIsStaff(user)
       IN photo' = [photo EXCEPT
                      !.db = IF allowed
                             THEN [db EXCEPT !.listings[c].status =
                                     TicketStatus(button)]
                             ELSE @,
                      !.last = [NoPhotoEvent EXCEPT !.op = button, !.chan = c,
                                                    !.user = user,
                                                    !.saved = allowed]]
    /\ UNCHANGED trackingVars

ListingDone == ListingButton("listing_done")
ListingClose == ListingButton("listing_close")

\* a message arrives in channel c: from a bot, in a channel without ticket,
\* for a ticket that is neither open nor images_done, or without an image
\* attachment, the listener returns; otherwise the urls are added to the
\* ticket's images and the document is saved before the first await
MessageCreate ==
  \E c \in DOMAIN photo.created \cup {Lobby}, bot \in BOOLEAN,
     atts \in MessageShapes :
    /\ photo.panel.pc # "boot"
    /\ LET db == photo.db
           urls == newImages(atts)
           taken == /\ ~bot
                    /\ c \in DOMAIN db.listings
                    /\ db.listings[c].status \in {"open", "images_done"}
                    /\ urls # <<>>
       IN photo' = [photo EXCEPT
                      !.db = IF taken
                             THEN [db EXCEPT !.listings[c].images =
                                     AddImages(@, urls)]
                             ELSE @,
                      !.last = [NoPhotoEvent EXCEPT
                                  !.op = "MessageCreate", !.chan = c,
                                  !.bot = bot, !.atts = atts,
                                  !.saved = taken]]
    /\ UNCHANGED trackingVars

\* a fresh installation: the panel, and tickets being created, marked done
\* and closed
InitPhoto == InitEmpty

PhotoNext ==
  \/ EnsurePanelStart
  \/ EnsurePanelDone
  \/ ListingModalSubmit
  \/ ListingModalDeferred
  \/ ListingModalCreated
  \/ ListingDone
  \/ ListingClose

SpecPhoto == InitPhoto /\ [][PhotoNext]_vars

\* the latest revision with one open ticket of u1 in channel 1 and the panel
\* posted: messages arrive, tickets are marked done and closed, and further
\* tickets are created
InitImages ==
  /\ now = T0
  /\ dataFile = [ebayListings |-> EmptyListings, ebayCredentials |-> NULL, missing |-> FALSE]
  /\ ticks = [s \in Slots |-> IdleTick]
  /\ discord = EmptyListings
  /\ ev = NoEvent
  /\ nFetch = 0
  /\ nPress = 0
  /\ finalUpdated = {}
  /\ hist = NoHistory
  /\ organize = NoOrganize
  /\ proc = Running
  /\ adding = NoAdding
  /\ photo = [NoPhoto EXCEPT
                !.db = PersistTicket(EmptyDb,
                                     [EmptyDb EXCEPT !.panelMessageId = <<"panel">>],
                                     1, NewTicket("u1")),
                !.panel = [pc |-> "done", db |-> NULL],
                !.created = Put(EmptyListings, 1, "u1")]
  /\ organized = NoOrganized
  /\ auth = NoAuth

ImagesNext ==
  \/ MessageCreate
  \/ ListingDone
  \/ ListingClose
  \/ ListingModalSubmit
  \/ ListingModalDeferredLatest
  \/ ListingModalCreated

SpecImages == InitImages /\ [][ImagesNext]_vars

\* ------------------------------------------------------------------------
\* Properties
\* ------------------------------------------------------------------------
\* the stored listings
Stored == dataFile.ebayListings

\* the step is the start of a callback
TickStarts == ev'.op = "tick"

\* the step is the one in which the getEbayListing call of slot s settles
FetchSettles(s) ==
  /\ ev'.op = "tick_fetch"
  /\ ticks[s].pc = "fetch"
  /\ ticks[s].cur = ev'.chan
  /\ ticks'[s] # ticks[s]

\* the step is the one in which the gateway calls of slot s settle
GatewaySettles(s) ==
  /\ ev'.op = "tick_gateway"
  /\ ticks[s].pc = "gateway"
  /\ ticks[s].cur = ev'.chan
  /\ ticks'[s] # ticks[s]

\* channel a comes before channel b in the loop's order
Precedes(a, b) ==
  \E i, j \in 1..Len(ChannelSeq) :
    i < j /\ ChannelSeq[i] = a /\ ChannelSeq[j] = b

\* the deadline of listing has passed at time t
DeadlinePassed(listing, t) ==
  listing.endTime # NULL /\ listing.endTime[1] < t

\* C1 as stated: for a stored active listing whose endTime is earlier than
\* now, (a) a callback that starts with it first in the store calls the data
\* source for it, (b) when that fetch completes the stored status is ended,
\* whatever the snapshot, and (c) no later callback calls the data source for
\* a listing that has had this final update
C1_SingleEndedTransition_AsStated ==
  [][ /\ \A c \in DOMAIN Stored :
           (TickStarts /\ c = Keys(Stored)[1] /\ Stored[c].status = "active"
              /\ DeadlinePassed(Stored[c], now))
             => ev'.issued = c
      /\ \A s \in Slots :
           (FetchSettles(s) /\ ev'.result = "ok"
              /\ Stored[ticks[s].cur].status = "active"
              /\ DeadlinePassed(Stored[ticks[s].cur], ticks[s].tnow))
             => Stored'[ticks[s].cur].status = "ended"
      /\ \A c \in finalUpdated : ev'.issued # c ]_vars

\* C2: while only the update loop runs, no step changes any field of a stored
\* listing whose status is closed, sold or shipped, and no step calls the data
\* source for it
C2_TerminalExclusion ==
  [][ \A c \in DOMAIN Stored :
        Stored[c].status \in {"closed", "sold", "shipped"}
          => /\ c \in DOMAIN Stored'
             /\ Stored'[c] = Stored[c]
             /\ ev'.issued # c ]_vars

\* C2 witness: a callback has started at a time when the first listing,
\* shipped, would have been due by its deadline and last check, has passed it
\* over and has called the data source for the second listing
C2_Witness ==
  /\ ev.op = "tick"
  /\ ev.issued = "c2"
  /\ Stored["c1"].status = "shipped"
  /\ Stored["c1"].endTime = <<Soon>>
  /\ now - Stored["c1"].lastChecked >= 2 * MINUTE

\* the due test of the claim C3 for the listing as a callback starts: with
\* interval I the policy gives for a future deadline, no fetch before T + I
\* and a fetch from T + I on (for this listing, or for one before it in whose
\* wake the loop reaches this one later)
DueAtStart(c) ==
  LET listing == Stored[c]
      I == getUpdateIntervalMs(listing.endTime, now)
  IN (listing.endTime # NULL /\ I # NULL) =>
       /\ now - listing.lastChecked < I[1] => ev'.issued # c
       /\ now - listing.lastChecked >= I[1]
            => (ev'.issued = c \/ Precedes(ev'.issued, c))

\* C3 as stated: for every stored listing that is not closed, sold or shipped,
\* with lastChecked = T and a future deadline of policy interval I, a callback
\* starting before T + I (so at T + I - 1) calls no fetch for it and one
\* starting at T + I or later does
C3_DueDetection_AsStated ==
  [][ TickStarts =>
        \A c \in DOMAIN Stored :
          Stored[c].status \notin {"closed", "sold", "shipped"}
            => DueAtStart(c) ]_vars

\* C3 amended: the same for every stored listing whose status is active, with
\* I the interval the policy gives at the time the loop reaches the listing;
\* and whenever a callback calls the data source for a listing further down
\* its pass, the listing as loaded is active and its deadline has passed or
\* the callback's start time is at least lastChecked + I
C3_DueDetection ==
  [][ /\ TickStarts =>
           \A c \in DOMAIN Stored :
             Stored[c].status = "active" => DueAtStart(c)
      /\ \A s \in Slots :
           (ticks[s].pc \in {"fetch", "gateway"} /\ ticks'[s] # ticks[s]
              /\ ev'.issued # "")
             => LET listing == ticks[s].db[ev'.issued]
                    I == getUpdateIntervalMs(listing.endTime, now)
                IN /\ listing.status = "active"
                   /\ I = NULL \/ ticks[s].tnow - listing.lastChecked >= I[1] ]_vars

\* C3 witness: a callback has started exactly one interval (2 minutes, the
\* deadline being half an hour away) after the last check of the first
\* listing, which is active, and has called the data source for it
C3_Witness ==
  /\ ev.op = "tick"
  /\ ev.issued = "c1"
  /\ Stored["c1"].status = "active"
  /\ Stored["c1"].endTime = <<Soon>>
  /\ now = Stored["c1"].lastChecked + 2 * MINUTE

\* what the claim C6 calls a notable change between the stored listing and
\* the fetched snapshot: the price string or the bid count differs, or the
\* listing, stored as active, is fetched as ended
Differs(stored, data) ==
  stored.currentPrice # data.currentPrice \/ stored.bidCount # data.bidCount
JustEnded(stored, data) ==
  stored.status = "active" /\ data.status = "ended"

\* C6 as stated: when an automatic fetch completes, the callback goes on to
\* notify exactly if the stored price or bid count differs from the fetched
\* one or the listing just ended; and when its gateway calls all succeed, it
\* has posted exactly one message, which in the 'updated' case carries the old
\* and new price and the old and new bid count
C6_ChangeNotification_AsStated ==
  [][ \A s \in Slots :
        /\ (FetchSettles(s) /\ ev'.result = "ok")
             => (ticks'[s].pc = "gateway"
                   <=> \/ Differs(Stored[ticks[s].cur], ev'.data[1])
                       \/ JustEnded(Stored[ticks[s].cur], ev'.data[1]))
        /\ (GatewaySettles(s) /\ ev'.result = "ok")
             => /\ Len(ev'.sent) = 1
                /\ ev'.sent[1].kind = "Bid Update"
                     => /\ ev'.sent[1].oldPrice = ticks[s].old[1].currentPrice
                        /\ ev'.sent[1].newPrice = ticks[s].newData[1].currentPrice
                        /\ ev'.sent[1].oldBids = ticks[s].old[1].bidCount
                        /\ ev'.sent[1].newBids = ticks[s].newData[1].bidCount ]_vars

\* C7 as stated: when an automatic fetch completes for a listing whose channel
\* holds the embed message, the callback goes on to the gateway, whether or
\* not price, bids or status changed, and when the gateway calls succeed the
\* embed has been edited
C7_EmbedAlwaysRefreshed_AsStated ==
  [][ \A s \in Slots :
        /\ (FetchSettles(s) /\ ev'.result = "ok"
              /\ discord[ticks[s].cur].buttons # {})
             => ticks'[s].pc = "gateway"
        /\ (GatewaySettles(s) /\ ev'.result = "ok"
              /\ discord[ticks[s].cur].buttons # {})
             => ev'.edited ]_vars

\* the stored listing holds the fields of the snapshot data
HoldsSnapshot(listing, data) ==
  /\ listing.title = data.title
  /\ listing.currentPrice = data.currentPrice
  /\ listing.bidCount = data.bidCount
  /\ listing.endTime = data.endTime
  /\ listing.imageUrl = data.imageUrl
  /\ listing.description = data.description
  /\ listing.views = data.views
  /\ listing.watchers = data.watchers
  /\ listing.status = data.status
  /\ listing.source = data.source

\* C8: no step of a callback changes a stored listing other than the one whose
\* fetch completes in that step: a failed fetch (or one whose save threw)
\* leaves the whole store as it was (so a listing whose fetch failed is, after
\* the callback, what it was before), and a completed fetch leaves every
\* other listing as it was and stores the snapshot's fields and
\* lastChecked = now for its own
C8_FailureIsolation ==
  [][ /\ ev'.op \in {"tick", "tick_gateway"} => Stored' = Stored
      /\ \A s \in Slots :
           FetchSettles(s) =>
             LET c == ticks[s].cur IN
             IF ev'.result \in {"failed", "save failed"}
             THEN Stored' = Stored /\ c \in ticks'[s].failed
             ELSE /\ DOMAIN Stored' = DOMAIN Stored
                  /\ \A k \in DOMAIN Stored \ {c} : Stored'[k] = Stored[k]
                  /\ HoldsSnapshot(Stored'[c], ev'.data[1])
                  /\ Stored'[c].lastChecked = now
                  /\ c \in ticks'[s].merged ]_vars

\* C8 witness: in one callback the fetch for the first listing was merged, at
\* a time after its creation, and then the fetch for the second listing
\* failed, which is stored as it was created
C8_Witness ==
  \E s \in DOMAIN ticks :
    /\ ticks[s].merged = {"c1"}
    /\ ticks[s].failed = {"c2"}
    /\ ev.op = "tick_fetch"
    /\ ev.chan = "c2"
    /\ Stored["c1"].lastChecked > T0
    /\ Stored["c2"].lastChecked = T0

\* the last step settled a getEbayListing call
Settled == ev.op \in {"tick_fetch", "ebay_refresh", "ebay_modal"} /\ ev.result # ""

\* C9: whenever a getEbayListing call has settled, if the API strategy failed
\* (for whatever reason) the scrape strategy was called once and, if it
\* succeeded, the call returned its snapshot with source "scrape"; if the API
\* strategy succeeded the scrape strategy was not called and the source is
\* "api" (the call returned: the step did not end as "failed")
C9_StrategyFallback ==
  Settled =>
    /\ ev.api \notin {"", "ok"}
         => /\ ev.apiCalls = 1
            /\ ev.scrapeCalls = 1
            /\ ev.scrape = "ok"
                 => /\ ev.result # "failed"
                    /\ ev.source = "scrape"
                    /\ ev.data # NULL
                    /\ ev.data[1].source = "scrape"
    /\ ev.api = "ok"
         => /\ ev.apiCalls = 1
            /\ ev.scrapeCalls = 0
            /\ ev.result # "failed"
            /\ ev.source = "api"
            /\ ev.data[1].source = "api"

\* C9 witness: with credentials stored, the API strategy threw for a url
\* without an item id, the scrape strategy succeeded and the call returned
\* its snapshot
C9_Witness ==
  /\ isEbayApiEnabled
  /\ ev.op = "tick_fetch"
  /\ ev.api = "Could not extract item ID from URL"
  /\ ev.scrape = "ok"
  /\ ev.source = "scrape"

\* the place of a status on the path active -> ended -> sold -> shipped
Rank(status) ==
  CASE status = "active" -> 0
    [] status = "ended" -> 1
    [] status = "sold" -> 2
    [] status = "shipped" -> 3
    [] OTHER -> 4

\* C10 as stated: no step (callback, refresh, sold, shipped, close) moves the
\* stored status of a listing backwards along active -> ended -> sold ->
\* shipped, and only the close button sets it to closed
C10_OneDirectional_AsStated ==
  [][ \A c \in DOMAIN Stored :
        LET old == Stored[c].status
            new == Stored'[c].status
        IN /\ (old # "closed" /\ new # "closed") => Rank(new) >= Rank(old)
           /\ (old # "closed" /\ new = "closed") => ev'.op = "ebay_close" ]_vars

\* the interval the policy gives now for a deadline r milliseconds away matches
\* the table with lower bounds from (and upper bounds up to)
TableFrom(lowest, endTime) ==
  LET r == endTime[1] - now
      i == getUpdateIntervalMs(endTime, now)
  IN /\ (r >= lowest /\ r < HOUR) => i = <<2 * MINUTE>>
     /\ (r >= HOUR /\ r < 8 * HOUR) => i = <<5 * MINUTE>>
     /\ (r >= 8 * HOUR /\ r < 3 * DAY) => i = <<15 * MINUTE>>
     /\ r >= 3 * DAY => i = <<30 * MINUTE>>

\* C4 as stated: for every stored deadline with remaining time r = endTime -
\* now, getUpdateIntervalMs gives 2 minutes for r in [0, 1h), 5 minutes for r
\* in [1h, 8h), 15 minutes for r in [8h, 3d) and 30 minutes for r >= 3d, so
\* that r = 0 gives 2 minutes
C4_IntervalThresholds_AsStated ==
  \A c \in DOMAIN Stored :
    Stored[c].endTime # NULL => TableFrom(0, Stored[c].endTime)

\* C4 amended: for every stored deadline with remaining time r,
\* getUpdateIntervalMs gives 2 minutes for r in (0, 1h), 5 minutes for r in
\* [1h, 8h), 15 minutes for r in [8h, 3d) and 30 minutes for r >= 3d; for
\* r = 0 it gives null (the deadline counts as passed)
C4_IntervalThresholds ==
  \A c \in DOMAIN Stored :
    LET endTime == Stored[c].endTime IN
    endTime # NULL =>
      /\ TableFrom(1, endTime)
      /\ endTime[1] - now = 0 => getUpdateIntervalMs(endTime, now) = NULL

\* C4 witness: the loop has just started a callback at the very instant of a
\* stored deadline (r = 0) and has called updateEbayListing for that listing
C4_Witness ==
  /\ ev.op = "tick"
  /\ ev.issued = "c1"
  /\ "c1" \in DOMAIN Stored
  /\ Stored["c1"].endTime = <<now>>
  /\ Stored["c1"].status = "active"

\* C5 as stated: getUpdateIntervalMs gives 30 minutes for a stored null
\* deadline and null for every stored non-null deadline earlier than now
C5_UnknownAndPassed_AsStated ==
  \A c \in DOMAIN Stored :
    LET endTime == Stored[c].endTime IN
    /\ endTime = NULL => getUpdateIntervalMs(endTime, now) = <<30 * MINUTE>>
    /\ (endTime # NULL /\ endTime[1] < now) =>
         getUpdateIntervalMs(endTime, now) = NULL

\* C5 amended: getUpdateIntervalMs gives 30 minutes for a stored null deadline
\* and for the deadline 0, and null for every other stored deadline earlier
\* than now
C5_UnknownAndPassed ==
  \A c \in DOMAIN Stored :
    LET endTime == Stored[c].endTime IN
    /\ (endTime = NULL \/ endTime = <<0>>) =>
         getUpdateIntervalMs(endTime, now) = <<30 * MINUTE>>
    /\ (endTime # NULL /\ endTime # <<0>> /\ endTime[1] < now) =>
         getUpdateIntervalMs(endTime, now) = NULL

\* C5 witness: a callback has just started while the stored deadline is the
\* epoch instant 1, long passed, and has called updateEbayListing for the listing
C5_Witness ==
  /\ ev.op = "tick"
  /\ ev.issued = "c1"
  /\ "c1" \in DOMAIN Stored
  /\ Stored["c1"].endTime = <<1>>

\* C11 as stated: no step (callback or Refresh button) calls getEbayListing for
\* a listing whose stored status is closed or shipped
C11_TerminalNeverRefetched_AsStated ==
  [][ \A c \in DOMAIN Stored :
        Stored[c].status \in {"closed", "shipped"} => ev'.issued # c ]_vars

\* C12 as stated: no step (callback, refresh, sold, shipped, close, organize)
\* stores for a listing a lastChecked smaller than the one stored before
C12_LastCheckedMonotone_AsStated ==
  [][ \A c \in DOMAIN Stored \cap DOMAIN Stored' :
        Stored'[c].lastChecked >= Stored[c].lastChecked ]_vars

\* C13 as stated: no step (callback, add listing, organize) removes a channel
\* id from the keys of the stored ebayListings
C13_NeverRemoved_AsStated ==
  [][ DOMAIN Stored \subseteq DOMAIN Stored' ]_vars

\* C15: no step (callback, refresh, sold, shipped, close, organize) changes
\* the url, the ownerId or the createdAt of a stored record
C15_IdentityImmutable ==
  [][ \A c \in DOMAIN Stored \cap DOMAIN Stored' :
        /\ Stored'[c].url = Stored[c].url
        /\ Stored'[c].ownerId = Stored[c].ownerId
        /\ Stored'[c].createdAt = Stored[c].createdAt ]_vars

\* C15 witness: a fetch has stored a snapshot for c1 after its creation, its
\* status is no longer active, and an /ebay-organize run has just saved the
\* document it had loaded
C15_Witness ==
  /\ ev.op = "ebay_organize_done"
  /\ ev.saved
  /\ "c1" \in DOMAIN Stored
  /\ Stored["c1"].lastChecked > Stored["c1"].createdAt
  /\ Stored["c1"].status # "active"

\* C16 as stated: over any sequence of callbacks and manual actions, the loop
\* moves the record of a channel to ended at most once and posts 'Auction
\* Ended' in the channel at most once
C16_EndedOnce_AsStated ==
  \A c \in Channels : hist.ended[c] <= 1 /\ hist.posts[c] <= 1

\* C17 as stated: at no time are two callbacks of the timer in progress
C17_NoConcurrentTicks_AsStated ==
  Cardinality({s \in DOMAIN ticks : ticks[s].pc # "idle"}) <= 1

\* the loop's test for a listing at time t: not skipped, and its deadline has
\* passed or its interval has gone by since lastChecked
StillDue(listing, t) ==
  /\ listing.status \notin {"closed", "ended", "sold", "shipped"}
  /\ LET I == getUpdateIntervalMs(listing.endTime, t)
     IN I = NULL \/ t - listing.lastChecked >= I[1]

\* C18: (a) a failed fetch of the loop leaves the whole store as it was; (b)
\* a stored record that is due stays due at every later instant; (c) a
\* callback that starts calls the data source for every record whose latest
\* fetch failed and that is due (at once, or after an earlier record of its
\* pass), and so does a callback that goes on down its pass; (d) when the
\* fetch for a record whose latest fetch failed completes, the record is
\* stored with the snapshot's price, bid count, deadline and status and with
\* lastChecked = now
C18_RetryAfterFailure ==
  [][ /\ (ev'.op = "tick_fetch" /\ ev'.result = "failed") => Stored' = Stored
      /\ \A c \in DOMAIN Stored : \A t \in ClockValues :
           (t >= now /\ StillDue(Stored[c], now)) => StillDue(Stored[c], t)
      /\ TickStarts =>
           \A c \in hist.failed \cap DOMAIN Stored :
             StillDue(Stored[c], now)
               => (ev'.issued = c \/ Precedes(ev'.issued, c))
      /\ \A s \in DOMAIN ticks :
           (ticks[s].pc \in {"fetch", "gateway"} /\ ticks'[s] # ticks[s]
              /\ ticks'[s].pc # "gateway")
             => \A c \in hist.failed \cap DOMAIN ticks[s].db :
                  (Precedes(ticks[s].cur, c)
                     /\ StillDue(ticks[s].db[c], ticks[s].tnow))
                    => (ev'.issued = c \/ Precedes(ev'.issued, c))
      /\ (ev'.op = "tick_fetch" /\ ev'.result = "ok"
            /\ ev'.chan \in hist.failed)
           => LET stored == Stored'[ev'.chan]
                  data == ev'.data[1]
              IN /\ stored.currentPrice = data.currentPrice
                 /\ stored.bidCount = data.bidCount
                 /\ stored.endTime = data.endTime
                 /\ stored.status = data.status
                 /\ stored.lastChecked = now' ]_vars

\* C18 witness: the fetch for c1 failed in one callback, a later callback
\* fetched c1 again, and that fetch has just completed and been stored
C18_Witness ==
  /\ ev.op = "tick_fetch"
  /\ ev.result = "ok"
  /\ ev.chan = "c1"
  /\ "c1" \in hist.recovered
  /\ Stored["c1"].lastChecked = now

\* C19: when the getEbayListing call of a callback settles with the API
\* strategy and the scrape strategy both failed, the call has failed with the
\* scrape strategy's error, and the step stores nothing, touches no embed,
\* posts nothing and does not go on to the gateway calls for the record
C19_BothFail ==
  [][ (ev'.op = "tick_fetch" /\ ev'.api \notin {"", "ok"}
         /\ ev'.scrape \notin {"", "ok"})
        => /\ ev'.result = "failed"
           /\ ev'.error = ev'.scrape
           /\ ev'.data = NULL
           /\ Stored' = Stored
           /\ discord' = discord
           /\ ~ev'.saved /\ ~ev'.edited /\ ~ev'.renamed
           /\ ev'.sent = <<>>
           /\ \A s \in DOMAIN ticks :
                FetchSettles(s) => ticks'[s].pc # "gateway" ]_vars

\* C19 witness: with credentials stored, the item request of the API strategy
\* failed, then the scrape failed, and the call failed with the scrape's error
C19_Witness ==
  /\ ev.op = "tick_fetch"
  /\ ev.api = "eBay API error"
  /\ ev.scrape = "Failed to fetch eBay listing"
  /\ ev.result = "failed"
  /\ ev.error = "Failed to fetch eBay listing"

\* C20: at most one timer of the update loop has been started; one has been
\* started only if the gateway has reported ready and ebayIntakeChannelId is
\* configured; and no callback of the loop runs without it
C20_TimerStartedOnce ==
  /\ proc.timers <= 1
  /\ proc.timers = 1 => (proc.ready /\ proc.intake)
  /\ (ev.op \in {"tick", "tick_fetch", "tick_gateway"}
        \/ \E s \in DOMAIN ticks : ticks[s].pc # "idle")
       => proc.timers = 1

\* C20 witness: the gateway has reported ready a second time, one timer
\* exists and a callback of the loop has just started
C20_Witness ==
  /\ proc.events = 2
  /\ proc.timers = 1
  /\ ev.op = "tick"
  /\ ev.issued = "c1"

\* the step is one in which slot s had an error raised for its record: the
\* fetch failed, the save threw, or a gateway call threw
ErrorAt(s) ==
  \/ FetchSettles(s) /\ ev'.result \in {"failed", "save failed"}
  \/ GatewaySettles(s) /\ ev'.result = "failed"

\* C21: when a fetch, a save or a gateway call of a callback raises an error
\* for a record, the same step goes on down the pass: every later record of
\* the pass that is due has its fetch issued at once or comes after the one
\* issued; the timer is left running; and whenever no callback is running
\* (and the fetch budget is not used up) a new callback can start
C21_ErrorBoundary ==
  [][ /\ \A s \in DOMAIN ticks :
           ErrorAt(s) =>
             /\ \A c \in DOMAIN ticks[s].db :
                  (Precedes(ticks[s].cur, c)
                     /\ StillDue(ticks[s].db[c], ticks[s].tnow))
                    => (ev'.issued = c \/ Precedes(ev'.issued, c))
             /\ ev'.issued # "" => /\ ticks'[s].pc = "fetch"
                                   /\ ticks'[s].cur = ev'.issued
             /\ proc'.timers = proc.timers
             /\ proc.timers > 0
      /\ (/\ hist.failed # {}
          /\ \A s \in DOMAIN ticks : ticks[s].pc = "idle"
          /\ nFetch < MaxFetches)
           => ENABLED TickStart ]_vars

\* C21 witness: in one callback the update of c1 failed (its fetch or its
\* save threw), the callback went on to c2 and the fetch for c2 has just been
\* merged and stored
C21_Witness ==
  \E s \in DOMAIN ticks :
    /\ ticks[s].failed = {"c1"}
    /\ ticks[s].merged = {"c2"}
    /\ hist.failed = {"c1"}
    /\ Stored["c1"].lastChecked = T0
    /\ ev.op = "tick_fetch"
    /\ ev.chan = "c2"
    /\ ev.result = "ok"
    /\ proc.timers = 1

\* C22: the step in which a fetch of the loop is merged and goes on to the
\* gateway calls has stored the record with the snapshot's fields and
\* lastChecked = now; and the step in which the gateway calls settle, with
\* the embed edit or the send (or an earlier call) having thrown or not,
\* leaves the whole stored document as it was
C22_NoRollback ==
  [][ \A s \in DOMAIN ticks :
        /\ (FetchSettles(s) /\ ticks'[s].pc = "gateway")
             => LET c == ticks[s].cur IN
                /\ HoldsSnapshot(Stored'[c], ev'.data[1])
                /\ Stored'[c].lastChecked = now
                /\ ticks'[s].db[c] = Stored'[c]
        /\ GatewaySettles(s) => Stored' = Stored ]_vars

\* C22 witness: the embed of c1 was edited, the send of the notification
\* threw, and c1 is stored as merged at an instant after its creation
C22_Witness ==
  /\ ev.op = "tick_gateway"
  /\ ev.chan = "c1"
  /\ ev.result = "failed"
  /\ ev.edited
  /\ ev.sent = <<>>
  /\ Stored["c1"].lastChecked > T0
  /\ \E s \in DOMAIN ticks : "c1" \in ticks[s].merged

\* C23: the step of a manual refresh whose getEbayListing call failed leaves
\* the whole stored document and the embeds as they were, saves nothing,
\* posts nothing, and answers the member who pressed the button with
\* "Failed to refresh: " followed by the error of the call
C23_RefreshFailure ==
  [][ (ev'.op = "ebay_refresh" /\ ev'.issued # "" /\ ev'.data = NULL)
        => /\ ev'.result = "failed"
           /\ Stored' = Stored
           /\ dataFile' = dataFile
           /\ discord' = discord
           /\ ~ev'.saved
           /\ ~ev'.edited
           /\ ev'.sent = <<>>
           /\ ev'.error # ""
           /\ ev'.reply = "Failed to refresh: " \o ev'.error ]_vars

\* C23 witness: a refresh of c1 at an instant after its creation has just
\* failed with the scrape strategy's error, and c1 is stored as created
C23_Witness ==
  /\ ev.op = "ebay_refresh"
  /\ ev.chan = "c1"
  /\ ev.result = "failed"
  /\ ev.reply = "Failed to refresh: Failed to fetch eBay listing"
  /\ now > T0
  /\ Stored["c1"].lastChecked = T0

\* C24: loadDb never throws and returns the default document for a data file
\* that is absent or does not parse; no step ends in an error that nothing
\* catches; and on such a file a callback that starts returns without a
\* fetch, a fetch of a running callback that returns is not stored (the
\* assignment into the default document throws inside the try block of
\* updateEbayListing), the refresh and sold buttons and /ebay-organize answer
\* and store nothing, and the add-listing handler writes a new file that
\* holds its record
C24_LoadDbDefault ==
  [][ /\ ~loadDb.threw
      /\ dataFile.missing => loadDb.db = DefaultDb
      /\ ev'.result \notin {"uncaught", "caught"}
      /\ dataFile.missing =>
           /\ TickStarts => /\ ev'.issued = ""
                            /\ \A s \in DOMAIN ticks : ticks'[s].pc = ticks[s].pc
                            /\ dataFile' = dataFile
           /\ ev'.op = "tick_fetch"
                => /\ dataFile' = dataFile
                   /\ ev'.data # NULL => ev'.result = "save failed"
           /\ ev'.op \in {"ebay_refresh", "ebay_sold"}
                => ev'.denied /\ dataFile' = dataFile
           /\ ev'.op = "ebay_organize"
                => ev'.denied /\ organize'.pc = "idle" /\ dataFile' = dataFile
           /\ (ev'.op = "ebay_modal" /\ ev'.saved)
                => /\ ~dataFile'.missing
                   /\ ev'.chan \in DOMAIN Stored' ]_vars

\* C24 witness: the data file was lost while a callback waited for the data
\* source; the fetch has returned a snapshot, updateEbayListing loaded the
\* default document and its assignment threw into its own catch block
C24_Witness ==
  /\ dataFile.missing
  /\ ev.op = "tick_fetch"
  /\ ev.data # NULL
  /\ ev.result = "save failed"

\* C25 as stated: the step in which the add-listing handler stores a record
\* stores it with status active, whatever snapshot the data source returned
C25_CreatedActive_AsStated ==
  [][ (ev'.op = "ebay_modal" /\ ev'.saved)
        => Stored'[ev'.chan].status = "active" ]_vars

\* the callback of slot s took the deadline-passed path for its current
\* record: the interval was null and it set the status of its copy to ended
OnDeadlinePath(s) ==
  /\ ticks[s].pc = "fetch"
  /\ ticks[s].db[ticks[s].cur].status = "ended"

\* C26 as stated: when the fetch of a callback that took the deadline-passed
\* path for a record completes and is stored, the stored status of the record
\* is ended, also when the snapshot's own status is active
C26_ForcedAfterMerge_AsStated ==
  [][ \A s \in DOMAIN ticks :
        (OnDeadlinePath(s) /\ FetchSettles(s) /\ ev'.result = "ok")
          => /\ ev'.saved
             /\ Stored'[ticks[s].cur].status = "ended" ]_vars

\* C27 as stated: when a fetch of the loop completes and the stored status of
\* its record goes from active to ended, the callback goes on to the gateway
\* calls with the 'Auction Ended' text carrying the snapshot's price and bid
\* count; and an 'Auction Ended' text that is posted carries the final price
\* and the bid total of the snapshot
C27_EndedCountsAsJustEnded_AsStated ==
  [][ \A s \in DOMAIN ticks :
        /\ (/\ FetchSettles(s)
            /\ ev'.result = "ok"
            /\ Stored[ticks[s].cur].status = "active"
            /\ Stored'[ticks[s].cur].status = "ended")
             => /\ ticks'[s].pc = "gateway"
                /\ Notification(ticks'[s].old[1], ticks'[s].newData[1])
                     = <<EndedMessage(ev'.data[1])>>
        /\ (/\ GatewaySettles(s)
            /\ ev'.result = "ok"
            /\ ev'.sent # <<>>
            /\ ev'.sent[1].kind = "Auction Ended")
             => /\ ev'.sent[1].finalPrice = ticks[s].newData[1].currentPrice
                /\ ev'.sent[1].totalBids = ticks[s].newData[1].bidCount ]_vars

\* the statuses the status buttons store
ManualStatuses == {"closed", "sold", "shipped"}

\* C28 as stated: when the fetch of a callback settles for a record that a
\* status button has stored as closed, sold or shipped since the callback
\* loaded the document, the stored status of the record is still that status
\* after the step
C28_ManualStatusKept_AsStated ==
  [][ \A s \in DOMAIN ticks :
        (/\ FetchSettles(s)
         /\ ticks[s].cur \in DOMAIN Stored
         /\ Stored[ticks[s].cur].status \in ManualStatuses
         /\ ticks[s].db[ticks[s].cur].status \notin ManualStatuses)
          => Stored'[ticks[s].cur].status = Stored[ticks[s].cur].status ]_vars

\* C29 as stated: a step that saves the document for one record (a fetch of
\* the loop, a status button, the add-listing handler) leaves every other
\* stored record as it was
C29_OtherRecordsKept_AsStated ==
  [][ (ev'.saved /\ ev'.chan # "")
        => \A c \in DOMAIN Stored \ {ev'.chan} :
             c \in DOMAIN Stored' /\ Stored'[c] = Stored[c] ]_vars

\* C30 as stated: a callback posts a 'Bid Update' for a price and bid count
\* only if no 'Bid Update' has announced that price and bid count since the
\* data source first returned them
C30_NoDuplicateNotice_AsStated ==
  [][ \A s \in DOMAIN ticks :
        (/\ GatewaySettles(s)
         /\ ev'.sent # <<>>
         /\ ev'.sent[1].kind = "Bid Update")
          => hist.told[ticks[s].cur]
               # <<ev'.sent[1].newPrice, ev'.sent[1].newBids>> ]_vars

\* listing, as a callback that started at tnow holds it, passes the loop's
\* test at time t: its status is none of the skipped ones and its deadline
\* has passed or its interval has elapsed since lastChecked
PassesTest(listing, tnow, t) ==
  /\ listing.status \notin {"closed", "ended", "sold", "shipped"}
  /\ LET I == getUpdateIntervalMs(listing.endTime, t)
     IN I = NULL \/ tnow - listing.lastChecked >= I[1]

\* C31: a step of the loop calls the data source only for a record that
\* passes the loop's test (a skipped record is not fetched); it changes no
\* stored record, and edits no embed, other than the one whose fetch it
\* completes and stores or whose gateway calls it makes; and a step of the
\* loop that changes the lastChecked of a stored record is the completion of
\* a fetch for that record that returned and was saved, and sets it to now
C31_SkipWritesNothing ==
  [][ /\ (TickStarts /\ ev'.issued # "")
           => PassesTest(Stored[ev'.issued], now, now)
      /\ \A s \in DOMAIN ticks :
           (ticks[s].pc \in {"fetch", "gateway"} /\ ticks'[s] # ticks[s]
              /\ ev'.issued # "")
             => PassesTest(ticks[s].db[ev'.issued], ticks[s].tnow, now)
      /\ ev'.op \in {"tick", "tick_fetch", "tick_gateway"}
           => \A c \in DOMAIN Stored :
                /\ c \in DOMAIN Stored'
                /\ (ev'.op = "tick" \/ ev'.chan # c)
                     => /\ Stored'[c] = Stored[c]
                        /\ discord'[c] = discord[c]
                /\ Stored'[c].lastChecked # Stored[c].lastChecked
                     => /\ ev'.op = "tick_fetch"
                        /\ ev'.chan = c
                        /\ ev'.result = "ok"
                        /\ ev'.saved
                        /\ Stored'[c].lastChecked = now
      /\ ev'.op = "tick" => ~ev'.edited /\ ~ev'.renamed /\ ev'.sent = <<>> ]_vars

\* C31 witness: a callback has skipped c1, which is active and not yet due,
\* and has fetched and stored c2 at a later instant; c1 is stored with the
\* lastChecked of its creation
C31_Witness ==
  \E s \in DOMAIN ticks :
    /\ ticks[s].merged = {"c2"}
    /\ ticks[s].failed = {}
    /\ ev.op = "tick_fetch"
    /\ ev.chan = "c2"
    /\ ev.result = "ok"
    /\ Stored["c1"].status = "active"
    /\ Stored["c1"].lastChecked = T0
    /\ Stored["c2"].lastChecked > T0

\* C32: when the gateway calls of a callback settle for a record that just
\* ended and none of the awaited calls outside the rename's own try block
\* threw, the 'Auction Ended' text with the snapshot's price and bid count
\* has been posted whether or not the channel was renamed, the stored
\* document is as the callback saved it (its record has status ended), and
\* the callback goes on with the due records after this one
C32_RenameBestEffort ==
  [][ \A s \in DOMAIN ticks :
        (/\ GatewaySettles(s)
         /\ ticks[s].old[1].status = "active"
         /\ ticks[s].newData[1].status = "ended"
         /\ ev'.result = "ok")
          => /\ ev'.sent = <<EndedMessage(ticks[s].newData[1])>>
             /\ Stored' = Stored
             /\ ticks[s].db[ticks[s].cur].status = "ended"
             /\ \A c \in DOMAIN ticks[s].db :
                  (Precedes(ticks[s].cur, c)
                     /\ StillDue(ticks[s].db[c], ticks[s].tnow))
                    => (ev'.issued = c \/ Precedes(ev'.issued, c)) ]_vars

\* C32 witness: c1 just ended, its embed was edited, the rename failed and
\* the 'Auction Ended' text has been posted; c1 is stored as ended
C32_Witness ==
  /\ ev.op = "tick_gateway"
  /\ ev.chan = "c1"
  /\ ev.result = "ok"
  /\ ev.edited
  /\ ~ev.renamed
  /\ ev.sent # <<>>
  /\ ev.sent[1].kind = "Auction Ended"
  /\ Stored["c1"].status = "ended"

\* C33: a callback comes to wait for a fetch only when it starts, when its
\* previous fetch has settled without anything to notify, or when the gateway
\* calls for its previous record have settled; that step issues exactly one
\* getEbayListing call, for a record after the previous one; a step in which
\* a callback goes on to its gateway calls or returns issues no call; so a
\* callback never has two fetches outstanding
C33_OneAtATime ==
  [][ \A s \in DOMAIN ticks :
        ticks'[s] # ticks[s] =>
          /\ ev'.op \in {"tick", "tick_fetch", "tick_gateway"}
          /\ ticks'[s].pc = "fetch"
               => /\ \/ TickStarts /\ ticks[s].pc = "idle"
                     \/ FetchSettles(s)
                     \/ GatewaySettles(s)
                  /\ ev'.issued = ticks'[s].cur
                  /\ nFetch' = nFetch + 1
                  /\ ticks[s].pc # "idle"
                       => Precedes(ticks[s].cur, ticks'[s].cur)
          /\ ticks'[s].pc # "fetch"
               => /\ nFetch' = nFetch
                  /\ ev'.issued = ""
          /\ ticks[s].pc = "gateway" => ticks'[s].pc # "gateway" ]_vars

\* C33 witness: the fetch for c1 was merged, its gateway calls have just
\* settled, and only now the callback has issued the fetch for c2
C33_Witness ==
  \E s \in DOMAIN ticks :
    /\ ev.op = "tick_gateway"
    /\ ev.chan = "c1"
    /\ ev.issued = "c2"
    /\ ticks[s].pc = "fetch"
    /\ ticks[s].cur = "c2"
    /\ ticks[s].merged = {"c1"}

\* C34 as stated: a button interaction (Refresh, Mark as Sold, Mark as
\* Shipped, Close Tracking) by a user who is neither the owner of the record
\* of that channel nor staff leaves the stored status of the record as it was.
\* ebay_sold, ebay_shipped and ebay_close test isOwner / isStaff; ebay_refresh
\* has no such test and stores the snapshot's status.
ButtonOps == {"ebay_refresh", "ebay_sold", "ebay_shipped", "ebay_close"}

C34_StrangerCannotChangeStatus_AsStated ==
  [][ ( /\ ev'.op \in ButtonOps
        /\ ev'.chan \in DOMAIN Stored
        /\ ev'.user # Stored[ev'.chan].ownerId
        /\ ~memberIsStaff(ev'.user) )
      => /\ ev'.chan \in DOMAIN Stored'
         /\ Stored'[ev'.chan].status = Stored[ev'.chan].status ]_vars

\* C35: the save of updateEbayListing touches only the record it processed.
\* In the step in which a callback's fetch for channel c settles and the
\* document is saved, the saved document has the channel ids of the document
\* as it is stored at that moment together with c, every record other than c
\* in it equals its value in that document (also a record added or changed
\* by a handler after the callback loaded its own copy), and the stored
\* credentials are the same.
C35_SaveTouchesOwnRecord ==
  [][ \A s \in DOMAIN ticks :
        (FetchSettles(s) /\ ev'.saved) =>
          LET c == ticks[s].cur IN
          /\ DOMAIN Stored' = DOMAIN Stored \cup {c}
          /\ \A k \in DOMAIN Stored \ {c} : Stored'[k] = Stored[k]
          /\ dataFile'.ebayCredentials = dataFile.ebayCredentials ]_vars

\* C35 witness: a callback that loaded a document with c1 alone has saved
\* c1, and the stored document holds c2, which the ebay_modal handler added
\* while the callback was waiting for its fetch
C35_Witness ==
  \E s \in DOMAIN ticks :
    /\ ev.op = "tick_fetch"
    /\ ev.chan = "c1"
    /\ ev.saved
    /\ ticks[s].pc = "gateway"
    /\ ticks[s].cur = "c1"
    /\ DOMAIN ticks[s].db = {"c1"}
    /\ "c2" \in DOMAIN Stored

ImageSet(ticket) == Range(ticket.images)

\* C38 as stated: in every step, for every stored ticket: the ticket stays
\* stored and none of its image urls is removed; a url is added only by the
\* MessageCreate listener, for a message of that channel that is not from a
\* bot and carries that url as an image attachment, while the ticket's status
\* is open or images_done; and the image list holds no url twice.
C38_ImageCollection_AsStated ==
  [][ \A c \in DOMAIN Tickets :
        /\ c \in DOMAIN Tickets'
        /\ ImageSet(Tickets[c]) \subseteq ImageSet(Tickets'[c])
        /\ ImageSet(Tickets'[c]) # ImageSet(Tickets[c]) =>
             /\ photo'.last.op = "MessageCreate"
             /\ photo'.last.chan = c
             /\ ~photo'.last.bot
             /\ Tickets[c].status \in {"open", "images_done"}
             /\ ImageSet(Tickets'[c]) \ ImageSet(Tickets[c])
                  \subseteq Range(newImages(photo'.last.atts))
        /\ Cardinality(ImageSet(Tickets'[c])) = Len(Tickets'[c].images) ]_vars

\* C37 as stated: when an /ebay-organize run over a channel has completed
\* without errors (it found the channel and none of its calls threw), the
\* next run, with nothing changed in between, moves no channel and renames
\* no channel (the correct emoji is always the hammer, the money bag or the
\* check mark)
C37_OrganizeIdempotent_AsStated ==
  \A i \in 1..(Len(organized.results) - 1) :
    (organized.results[i].errors = 0 /\ organized.results[i].skipped = 0)
      => /\ organized.results[i + 1].moved = 0
         /\ organized.results[i + 1].emojiUpdated = 0

\* C39 as stated: every API request goes out with a token that was issued
\* for the credentials stored at that moment: once the ebay_setup_modal
\* handler has saved new credentials, or /ebay-clear has removed them, and
\* cleared the cached token, no API request uses a token obtained with the
\* previous credentials, also when a token request made with them was in
\* progress at that moment
C39_NoStaleToken_AsStated ==
  [][ auth'.last.op = "api" =>
        auth'.last.token = Token(dataFile'.ebayCredentials) ]_vars

\* C14 as stated: after a completed fetch of the loop the stored record
\* holds the snapshot's title, currentPrice, bidCount, endTime, imageUrl,
\* description, views, watchers, source, listingType and buyItNowPrice
C14_MergeFullReplacement_AsStated ==
  [][ (ev'.op = "tick_fetch" /\ ev'.result = "ok") =>
        LET stored == Stored'[ev'.chan]
            data == ev'.data[1]
        IN /\ stored.title = data.title
           /\ stored.currentPrice = data.currentPrice
           /\ stored.bidCount = data.bidCount
           /\ stored.endTime = data.endTime
           /\ stored.imageUrl = data.imageUrl
           /\ stored.description = data.description
           /\ stored.views = data.views
           /\ stored.watchers = data.watchers
           /\ stored.source = data.source
           /\ stored.listingType = data.listingType
           /\ stored.buyItNowPrice = data.buyItNowPrice ]_vars

====
